---- MODULE Spec2Model ----
(***************************************************************************)
(* Image Tools (Miro board plugin): ordering of the selected images and    *)
(* their placement into a grid.                                            *)
(*                                                                         *)
(* Conventions of the model                                                *)
(*  - A string is a sequence of UTF-16 code units (48..57 are the digits,  *)
(*    65..90 the upper-case and 97..122 the lower-case Latin letters, 95   *)
(*    is "_", 10 is the line feed).                                        *)
(*  - Lengths and coordinates are integers counting HALF board units, and  *)
(*    every width and height is even, so that the code's  width / 2  and   *)
(*    height / 2  are exact: a unit square has width = height = 2.         *)
(*  - A luminance in [0, 1] is counted in tenths (0 .. 10).                *)
(*  - JavaScript's null is NULL.                                           *)
(***************************************************************************)
EXTENDS Integers, Sequences, FiniteSets, TLC

VARIABLES
    pc,             \* position of the running handler / function
    str,            \* extractTrailingNumber: its argument
    num,            \* extractTrailingNumber: its result
    form,           \* the values of the panel's form fields
    selection,      \* the items board.getSelection() resolves with
    items,          \* the widget objects (selection's, mutated in place)
    images,         \* `images`: indices of the widget objects, in array order
    orderedImages,  \* `orderedImages`: indices, in the order to lay out
    k,              \* sortImagesByColor: index of the image being examined
    meta,           \* sortImagesByColor: the `meta` array
    pendingSync,    \* widget objects whose sync() has not settled yet
    syncCount,      \* number of sync() calls issued so far
    written,        \* names of the widget fields assigned so far
    notifications   \* the notifications shown, oldest first

vars ==
    <<pc, str, num, form, selection, items, images, orderedImages, k, meta,
      pendingSync, syncCount, written, notifications>>

NULL ==
    -1

(***************************************************************************)
(* Bounds                                                                  *)
(***************************************************************************)
MaxLen ==
    4

MaxItems ==
    2

MaxLayoutItems ==
    3

MaxUnitItems ==
    5

MaxCols ==
    3

(***************************************************************************)
(* Strings                                                                 *)
(***************************************************************************)
Min(S) ==
    CHOOSE v \in S : \A w \in S : v <= w

Max(S) ==
    CHOOSE v \in S : \A w \in S : v >= w

\* \d of a JavaScript regular expression (no unicode flag): 0-9 only.
IsDigit(c) ==
    c \in 48..57

\* The characters "." does not match: LF, CR, LS, PS.
IsLineTerminator(c) ==
    c \in {10, 13, 8232, 8233}

\* String.prototype.toLowerCase on the model's alphabet (ASCII letters).
ToLowerCase(s) ==
    [i \in 1..Len(s) |-> IF s[i] \in 65..90 THEN s[i] + 32 ELSE s[i]]

\* a < b on strings: lexicographic on code units, a proper prefix is smaller.
RECURSIVE StrLess(_, _)
StrLess(a, b) ==
    IF b = << >> THEN FALSE
    ELSE IF a = << >> THEN TRUE
    ELSE IF Head(a) # Head(b) THEN Head(a) < Head(b)
    ELSE StrLess(Tail(a), Tail(b))

\* Number.parseInt(digits, 10) on a non-empty run of digits.
RECURSIVE ParseInt(_)
ParseInt(digits) ==
    IF digits = << >> THEN 0
    ELSE 10 * ParseInt(SubSeq(digits, 1, Len(digits) - 1))
         + (digits[Len(digits)] - 48)

\* String(counter) for a counter >= 1.
RECURSIVE StringOfNumber(_)
StringOfNumber(n) ==
    IF n < 10 THEN <<48 + n>>
    ELSE Append(StringOfNumber(n \div 10), 48 + (n % 10))

(***************************************************************************)
(* extractTrailingNumber: str.match(/(\d+)(?!.*\d)/)                       *)
(***************************************************************************)
\* `.*\d` matches at position p: a digit at some j >= p, reached over
\* characters "." matches, that is over no line terminator.
LookaheadMatches(s, p) ==
    \E j \in p..Len(s) :
        /\ IsDigit(s[j])
        /\ \A m \in p..(j - 1) : ~IsLineTerminator(s[m])

\* The lengths n with which (\d+)(?!.*\d) matches at position i.
MatchLengths(s, i) ==
    {n \in 1..(Len(s) - i + 1) :
        /\ \A j \in i..(i + n - 1) : IsDigit(s[j])
        /\ ~LookaheadMatches(s, i + n)}

MatchStarts(s) ==
    {i \in 1..Len(s) : MatchLengths(s, i) # {}}

\* The leftmost match, its \d+ greedy; null when there is none.
extractTrailingNumber(s) ==
    IF MatchStarts(s) = {} THEN NULL
    ELSE LET i == Min(MatchStarts(s))
             n == Max(MatchLengths(s, i))
         IN  ParseInt(SubSeq(s, i, i + n - 1))

(***************************************************************************)
(* Array.prototype.sort with a comparator that is a total preorder: the    *)
(* elements in ascending order, those comparing equal in their array order *)
(* (the sort is stable).  cmp[i][j] is the comparator's result on seq[i]   *)
(* and seq[j]; rank counts the elements that go before seq[i].             *)
(***************************************************************************)
StableSort(seq, cmp) ==
    LET n == Len(seq)
        rank(i) ==
            Cardinality({j \in 1..n :
                \/ cmp[j][i] < 0
                \/ cmp[j][i] = 0 /\ j < i})
    IN  [r \in 1..n |-> seq[CHOOSE i \in 1..n : rank(i) = r - 1]]

(***************************************************************************)
(* Titles and numbers                                                      *)
(***************************************************************************)
\* (item.title || "").toString()
getTitle(item) ==
    item.title

\* The comparator with the numbers compared the wrong way round.
NumberCompare_mut(a, b) ==
    IF a.hasNumber /\ ~b.hasNumber THEN -1
    ELSE IF ~a.hasNumber /\ b.hasNumber THEN 1
    ELSE IF a.hasNumber /\ b.hasNumber
         THEN IF a.num # b.num THEN b.num - a.num
              ELSE IF StrLess(a.lower, b.lower) THEN -1
              ELSE IF StrLess(b.lower, a.lower) THEN 1
              ELSE a.index - b.index
    ELSE IF StrLess(a.lower, b.lower) THEN -1
    ELSE IF StrLess(b.lower, a.lower) THEN 1
    ELSE a.index - b.index

\* The comparator of meta.sort in sortImagesByNumber.
NumberCompare(a, b) ==
    IF a.hasNumber /\ ~b.hasNumber THEN -1
    ELSE IF ~a.hasNumber /\ b.hasNumber THEN 1
    ELSE IF a.hasNumber /\ b.hasNumber
         THEN IF a.num # b.num THEN a.num - b.num
              ELSE IF StrLess(a.lower, b.lower) THEN -1
              ELSE IF StrLess(b.lower, a.lower) THEN 1
              ELSE a.index - b.index
    ELSE IF StrLess(a.lower, b.lower) THEN -1
    ELSE IF StrLess(b.lower, a.lower) THEN 1
    ELSE a.index - b.index

\* The second half of sortImagesByNumber: the array `imgs` of widget indices
\* in the order given by number, then lower-cased title, then array index.
NumberOrder(objs, imgs) ==
    LET m == [index \in 1..Len(imgs) |->
                LET title == getTitle(objs[imgs[index]])
                    n     == extractTrailingNumber(title)
                IN  [img |-> imgs[index], index |-> index, title |-> title,
                     lower |-> ToLowerCase(title), hasNumber |-> n # NULL,
                     num |-> n]]
        sorted == StableSort(m, [i \in 1..Len(m) |-> [j \in 1..Len(m) |->
                                    NumberCompare(m[i], m[j])]])
    IN  [i \in 1..Len(imgs) |-> sorted[i].img]

(***************************************************************************)
(* Geometry order                                                          *)
(***************************************************************************)
\* The comparator of sortByGeometry: by y, then by x, exactly.
GeometryCompare(a, b) ==
    IF a.y < b.y THEN -1
    ELSE IF a.y > b.y THEN 1
    ELSE IF a.x < b.x THEN -1
    ELSE IF a.x > b.x THEN 1
    ELSE 0

\* sortByGeometry(images): a sorted copy of the array of widget indices.
sortByGeometry(objs, imgs) ==
    LET m == [i \in 1..Len(imgs) |->
                [img |-> imgs[i], x |-> objs[imgs[i]].x, y |-> objs[imgs[i]].y]]
        sorted == StableSort(m, [i \in 1..Len(m) |-> [j \in 1..Len(m) |->
                                    GeometryCompare(m[i], m[j])]])
    IN  [i \in 1..Len(imgs) |-> sorted[i].img]

\* Math.abs
Abs(v) ==
    IF v < 0 THEN -v ELSE v

\* compareByGeometry(a, b) of the align-form revisions: items whose centres
\* differ vertically by at most half the smaller height are in one row.
\* The heights being even, 2 * |dy| > min height is |dy| > min height / 2.
compareByGeometry(a, b) ==
    LET dy == a.y - b.y
    IN  IF 2 * Abs(dy) > Min({a.height, b.height}) THEN dy ELSE a.x - b.x

(***************************************************************************)
(* alignImagesInGivenOrder: the layout of an array `imgs` of image records *)
(* under config = [imagesPerRow, horizontalGap, verticalGap, sizeMode,     *)
(* startCorner].                                                           *)
(***************************************************************************)
Corners ==
    {"top-left", "top-right", "bottom-left", "bottom-right"}

\* startCorner.startsWith("top")
StartsWithTop(startCorner) ==
    startCorner \in {"top-left", "top-right"}

\* startCorner.endsWith("left")
EndsWithLeft(startCorner) ==
    startCorner \in {"top-left", "bottom-left"}

\* The resize step with the largest width (height) as the target.
ResizeImages_mut(imgs, sizeMode) ==
    IF sizeMode = "width"
    THEN LET targetWidth == Max({imgs[i].width : i \in 1..Len(imgs)})
         IN  [i \in 1..Len(imgs) |-> [imgs[i] EXCEPT !.width = targetWidth]]
    ELSE IF sizeMode = "height"
    THEN LET targetHeight == Max({imgs[i].height : i \in 1..Len(imgs)})
         IN  [i \in 1..Len(imgs) |-> [imgs[i] EXCEPT !.height = targetHeight]]
    ELSE imgs

\* The resize step: every width (height) becomes the smallest one.
ResizeImages(imgs, sizeMode) ==
    IF sizeMode = "width"
    THEN LET targetWidth == Min({imgs[i].width : i \in 1..Len(imgs)})
         IN  [i \in 1..Len(imgs) |-> [imgs[i] EXCEPT !.width = targetWidth]]
    ELSE IF sizeMode = "height"
    THEN LET targetHeight == Min({imgs[i].height : i \in 1..Len(imgs)})
         IN  [i \in 1..Len(imgs) |-> [imgs[i] EXCEPT !.height = targetHeight]]
    ELSE imgs

\* The bounding box of the images' current rectangles (x, y are centres).
Bounds(imgs) ==
    LET I == 1..Len(imgs)
    IN  [minLeft   |-> Min({imgs[i].x - imgs[i].width \div 2 : i \in I}),
         minTop    |-> Min({imgs[i].y - imgs[i].height \div 2 : i \in I}),
         maxRight  |-> Max({imgs[i].x + imgs[i].width \div 2 : i \in I}),
         maxBottom |-> Max({imgs[i].y + imgs[i].height \div 2 : i \in I})]

\* cols = Math.max(1, imagesPerRow)
ColsOf(imagesPerRow) ==
    Max({1, imagesPerRow})

\* rows = Math.ceil(total / cols)
RowsOf(total, cols) ==
    (total + cols - 1) \div cols

\* computeGridPosition(index, cols, rows, startCorner) of the align-form
\* revision: the cell of a linear index, counted from the top and the left.
computeGridPosition(index, cols, rows, startCorner) ==
    LET rowIndex == index \div cols
        colIndex == index % cols
        fromTop == StartsWithTop(startCorner)
        fromLeft == EndsWithLeft(startCorner)
    IN  [rowFromTop |-> IF fromTop THEN rowIndex ELSE rows - 1 - rowIndex,
         colFromLeft |-> IF fromLeft THEN colIndex ELSE cols - 1 - colIndex]

\* The uniform grid with the column inversion left out of the case
\* "bottom-right".
UniformGridColumns_mut(imgs, config) ==
    LET I == 1..Len(imgs)
        maxWidth == Max({imgs[i].width : i \in I})
        maxHeight == Max({imgs[i].height : i \in I})
        b == Bounds(imgs)
        total == Len(imgs)
        cols == ColsOf(config.imagesPerRow)
        rows == RowsOf(total, cols)
        cellWidth == maxWidth + config.horizontalGap
        cellHeight == maxHeight + config.verticalGap
        gridWidth == cols * maxWidth + (cols - 1) * config.horizontalGap
        gridHeight == rows * maxHeight + (rows - 1) * config.verticalGap
        originTop == IF StartsWithTop(config.startCorner) THEN b.minTop
                     ELSE b.maxBottom - gridHeight
        originLeft == IF EndsWithLeft(config.startCorner) THEN b.minLeft
                      ELSE b.maxRight - gridWidth
        row(index) ==
            IF config.startCorner \in {"bottom-left", "bottom-right"}
            THEN rows - 1 - (index \div cols) ELSE index \div cols
        col(index) ==
            IF config.startCorner \in {"top-right"}
            THEN cols - 1 - (index % cols) ELSE index % cols
    IN  [i \in I |->
            LET left == originLeft + col(i - 1) * cellWidth
                top == originTop + row(i - 1) * cellHeight
            IN  [imgs[i] EXCEPT !.x = left + imgs[i].width \div 2,
                                !.y = top + imgs[i].height \div 2]]

\* The uniform grid with the cells as small as the smallest image: Math.min
\* where maxWidth and maxHeight need Math.max.
UniformGrid_mut(imgs, config) ==
    LET I == 1..Len(imgs)
        maxWidth == Min({imgs[i].width : i \in I})
        maxHeight == Min({imgs[i].height : i \in I})
        b == Bounds(imgs)
        total == Len(imgs)
        cols == ColsOf(config.imagesPerRow)
        rows == RowsOf(total, cols)
        cellWidth == maxWidth + config.horizontalGap
        cellHeight == maxHeight + config.verticalGap
        gridWidth == cols * maxWidth + (cols - 1) * config.horizontalGap
        gridHeight == rows * maxHeight + (rows - 1) * config.verticalGap
        originTop == IF StartsWithTop(config.startCorner) THEN b.minTop
                     ELSE b.maxBottom - gridHeight
        originLeft == IF EndsWithLeft(config.startCorner) THEN b.minLeft
                      ELSE b.maxRight - gridWidth
        row(index) ==
            IF config.startCorner \in {"bottom-left", "bottom-right"}
            THEN rows - 1 - (index \div cols) ELSE index \div cols
        col(index) ==
            IF config.startCorner \in {"top-right", "bottom-right"}
            THEN cols - 1 - (index % cols) ELSE index % cols
    IN  [i \in I |->
            LET left == originLeft + col(i - 1) * cellWidth
                top == originTop + row(i - 1) * cellHeight
            IN  [imgs[i] EXCEPT !.x = left + imgs[i].width \div 2,
                                !.y = top + imgs[i].height \div 2]]

\* The uniform grid: every cell is maxWidth x maxHeight, an image is put at
\* the top-left of its cell, rows and columns are counted from the corner.
UniformGrid(imgs, config) ==
    LET I == 1..Len(imgs)
        maxWidth == Max({imgs[i].width : i \in I})
        maxHeight == Max({imgs[i].height : i \in I})
        b == Bounds(imgs)
        total == Len(imgs)
        cols == ColsOf(config.imagesPerRow)
        rows == RowsOf(total, cols)
        cellWidth == maxWidth + config.horizontalGap
        cellHeight == maxHeight + config.verticalGap
        gridWidth == cols * maxWidth + (cols - 1) * config.horizontalGap
        gridHeight == rows * maxHeight + (rows - 1) * config.verticalGap
        originTop == IF StartsWithTop(config.startCorner) THEN b.minTop
                     ELSE b.maxBottom - gridHeight
        originLeft == IF EndsWithLeft(config.startCorner) THEN b.minLeft
                      ELSE b.maxRight - gridWidth
        row(index) ==
            IF config.startCorner \in {"bottom-left", "bottom-right"}
            THEN rows - 1 - (index \div cols) ELSE index \div cols
        col(index) ==
            IF config.startCorner \in {"top-right", "bottom-right"}
            THEN cols - 1 - (index % cols) ELSE index % cols
    IN  [i \in I |->
            LET left == originLeft + col(i - 1) * cellWidth
                top == originTop + row(i - 1) * cellHeight
            IN  [imgs[i] EXCEPT !.x = left + imgs[i].width \div 2,
                                !.y = top + imgs[i].height \div 2]]

\* rowWidths[r] after the first n images went through the loop: the gap is
\* added before an image when the row's width so far is positive.
RECURSIVE RowWidthAfter(_, _, _, _, _)
RowWidthAfter(imgs, cols, horizontalGap, r, n) ==
    IF n = 0 THEN 0
    ELSE LET before == RowWidthAfter(imgs, cols, horizontalGap, r, n - 1)
         IN  IF (n - 1) \div cols # r THEN before
             ELSE (IF before > 0 THEN before + horizontalGap ELSE before)
                  + imgs[n].width

\* rowHeights[r] taken from the first image of the row alone.
RowHeight_mut(imgs, cols, r) ==
    imgs[r * cols + 1].height

\* rowHeights[r]: the largest height of the row's images, starting from 0.
RowHeight(imgs, cols, r) ==
    Max({0} \cup {imgs[i].height : i \in {j \in 1..Len(imgs) : (j - 1) \div cols = r}})

\* rowTop[r] without the heights of the rows above.
RowTop_mut(imgs, cols, verticalGap, r) ==
    r * verticalGap

\* rowTop[r] = rowTop[r - 1] + rowHeights[r - 1] + verticalGap, rowTop[0] = 0
RECURSIVE RowTop(_, _, _, _)
RowTop(imgs, cols, verticalGap, r) ==
    IF r = 0 THEN 0
    ELSE RowTop(imgs, cols, verticalGap, r - 1)
         + RowHeight(imgs, cols, r - 1) + verticalGap

\* rowCursorX[r] advanced by the widths alone, the gap left out.
RECURSIVE RowCursorX_mut(_, _, _, _)
RowCursorX_mut(imgs, cols, horizontalGap, i) ==
    IF i % cols = 0 THEN 0
    ELSE RowCursorX_mut(imgs, cols, horizontalGap, i - 1) + imgs[i].width

\* rowCursorX[r] when image number i (from 0) is reached: the widths and gaps
\* of the images before it in its row.
RECURSIVE RowCursorX(_, _, _, _)
RowCursorX(imgs, cols, horizontalGap, i) ==
    IF i % cols = 0 THEN 0
    ELSE RowCursorX(imgs, cols, horizontalGap, i - 1)
         + imgs[i].width + horizontalGap

RECURSIVE SumRowHeights(_, _, _)
SumRowHeights(imgs, cols, rows) ==
    IF rows = 0 THEN 0
    ELSE SumRowHeights(imgs, cols, rows - 1) + RowHeight(imgs, cols, rows - 1)

\* gridWidth and gridHeight of the packed rows.
PackedGrid(imgs, config) ==
    LET total == Len(imgs)
        cols == ColsOf(config.imagesPerRow)
        rows == RowsOf(total, cols)
    IN  [gridWidth |->
            Max({RowWidthAfter(imgs, cols, config.horizontalGap, r, total) :
                    r \in 0..(rows - 1)}),
         gridHeight |->
            SumRowHeights(imgs, cols, rows)
            + config.verticalGap * Max({0, rows - 1})]

\* The packed rows with flipY left unset in the case "bottom-right".
PackedRows_mut(imgs, config) ==
    LET I == 1..Len(imgs)
        cols == ColsOf(config.imagesPerRow)
        g == PackedGrid(imgs, config)
        baseX(i) == RowCursorX(imgs, cols, config.horizontalGap, i - 1)
                    + imgs[i].width \div 2
        baseY(i) == RowTop(imgs, cols, config.verticalGap, (i - 1) \div cols)
                    + RowHeight(imgs, cols, (i - 1) \div cols) \div 2
        b == Bounds(imgs)
        flipX == config.startCorner \in {"top-right", "bottom-right"}
        flipY == config.startCorner \in {"bottom-left"}
        originLeft == IF flipX THEN b.maxRight - g.gridWidth ELSE b.minLeft
        originTop == IF config.startCorner \in {"bottom-left", "bottom-right"}
                     THEN b.maxBottom - g.gridHeight ELSE b.minTop
    IN  [i \in I |->
            LET x0 == IF flipX THEN g.gridWidth - baseX(i) ELSE baseX(i)
                y0 == IF flipY THEN g.gridHeight - baseY(i) ELSE baseY(i)
            IN  [imgs[i] EXCEPT !.x = originLeft + x0, !.y = originTop + y0]]

\* The packed rows: an image follows the previous one of its row at the
\* horizontal gap and is centred on its row's height; the result is mirrored
\* across the grid for the right and bottom corners.
PackedRows(imgs, config) ==
    LET I == 1..Len(imgs)
        cols == ColsOf(config.imagesPerRow)
        g == PackedGrid(imgs, config)
        baseX(i) == RowCursorX(imgs, cols, config.horizontalGap, i - 1)
                    + imgs[i].width \div 2
        baseY(i) == RowTop(imgs, cols, config.verticalGap, (i - 1) \div cols)
                    + RowHeight(imgs, cols, (i - 1) \div cols) \div 2
        b == Bounds(imgs)
        flipX == config.startCorner \in {"top-right", "bottom-right"}
        flipY == config.startCorner \in {"bottom-left", "bottom-right"}
        originLeft == IF flipX THEN b.maxRight - g.gridWidth ELSE b.minLeft
        originTop == IF flipY THEN b.maxBottom - g.gridHeight ELSE b.minTop
    IN  [i \in I |->
            LET x0 == IF flipX THEN g.gridWidth - baseX(i) ELSE baseX(i)
                y0 == IF flipY THEN g.gridHeight - baseY(i) ELSE baseY(i)
            IN  [imgs[i] EXCEPT !.x = originLeft + x0, !.y = originTop + y0]]

(***************************************************************************)
(* The sorting form and the board                                          *)
(***************************************************************************)
\* Number(field.value) || fallback: 0 (and NaN) give the fallback.
FormNumber(value, fallback) ==
    IF value = 0 THEN fallback ELSE value

\* The constants handleSortingSubmit reads from the form.
config ==
    [imagesPerRow  |-> FormNumber(form.sortingImagesPerRow, 1),
     horizontalGap |-> FormNumber(form.sortingHorizontalGap, 0),
     verticalGap   |-> FormNumber(form.sortingVerticalGap, 0),
     sizeMode      |-> form.sortingSizeMode,
     startCorner   |-> form.sortingStartCorner]

sortMode ==
    form.sortingSortMode

\* The neutral luminance 0.5, in tenths.
NeutralLuminance ==
    5

\* selection.filter((i) => i.type === "image"), as indices into selection
RECURSIVE ImagesOf(_, _)
ImagesOf(sel, n) ==
    IF n = 0 THEN << >>
    ELSE IF sel[n].type = "image" THEN Append(ImagesOf(sel, n - 1), n)
    ELSE ImagesOf(sel, n - 1)

\* The records of the widget objects `imgs` names, in its order.
Records(objs, imgs) ==
    [i \in 1..Len(imgs) |-> objs[imgs[i]]]

\* The widget objects after those `imgs` names became the records `recs`.
Stored(objs, imgs, recs) ==
    [id \in 1..Len(objs) |->
        IF \E i \in 1..Len(imgs) : imgs[i] = id
        THEN recs[CHOOSE i \in 1..Len(imgs) : imgs[i] = id]
        ELSE objs[id]]

Range(seq) ==
    {seq[i] : i \in 1..Len(seq)}

Notified(level, message, count) ==
    Append(notifications, [level |-> level, message |-> message, count |-> count])

(***************************************************************************)
(* handleSortingSubmit                                                     *)
(***************************************************************************)
\* The submit event: the handler starts, reads the form and calls
\* board.getSelection().
Submit ==
    /\ pc = "idle"
    /\ pc' = "getSelection"
    /\ UNCHANGED <<str, num, form, selection, items, images, orderedImages, k,
                   meta, pendingSync, syncCount, written, notifications>>

\* The pre-pass with the title syncs not awaited: the ordering follows at
\* once and the handler goes on to the layout.
NumberPrePass_mut(imgs) ==
    LET geoOrder == sortByGeometry(items, imgs)
    IN  /\ items' = Stored(items, geoOrder,
                        [c \in 1..Len(geoOrder) |->
                            [items[geoOrder[c]] EXCEPT !.title = StringOfNumber(c)]])
        /\ written' = written \cup {"title"}
        /\ pendingSync' = Range(geoOrder)
        /\ syncCount' = syncCount + Len(geoOrder)
        /\ images' = geoOrder
        /\ orderedImages' = NumberOrder(items', geoOrder)
        /\ pc' = "align"
        /\ UNCHANGED <<k, meta, notifications>>

\* sortImagesByNumber up to its first await: when some title is empty, every
\* image is given its rank in geometry order as title and is synced.
NumberPrePass(imgs) ==
    LET geoOrder == sortByGeometry(items, imgs)
    IN  /\ items' = Stored(items, geoOrder,
                        [c \in 1..Len(geoOrder) |->
                            [items[geoOrder[c]] EXCEPT !.title = StringOfNumber(c)]])
        /\ written' = written \cup {"title"}
        /\ pendingSync' = Range(geoOrder)
        /\ syncCount' = syncCount + Len(geoOrder)
        /\ images' = geoOrder
        /\ pc' = "titleSync"
        /\ UNCHANGED <<orderedImages, k, meta, notifications>>

\* if (imagesPerRow < 1)
TooFewColumns_mut ==
    FALSE

TooFewColumns ==
    config.imagesPerRow < 1

\* board.getSelection() resolved: the two validations, then the start of
\* the ordering chosen by the sort mode.
SelectionResolved ==
    /\ pc = "getSelection"
    /\ LET imgs == ImagesOf(selection, Len(selection))
       IN  IF imgs = << >>
           THEN /\ notifications' = Notified("info", "select", 0)
                /\ pc' = "done"
                /\ images' = imgs
                /\ UNCHANGED <<items, orderedImages, k, meta, pendingSync,
                               syncCount, written>>
           ELSE IF TooFewColumns
           THEN /\ notifications' = Notified("error", "imagesPerRow", 0)
                /\ pc' = "done"
                /\ images' = imgs
                /\ UNCHANGED <<items, orderedImages, k, meta, pendingSync,
                               syncCount, written>>
           ELSE IF sortMode = "color"
           THEN /\ notifications' = Notified("info", "sorting", 0)
                /\ pc' = "color"
                /\ images' = imgs
                /\ k' = 1
                /\ meta' = << >>
                /\ UNCHANGED <<items, orderedImages, pendingSync, syncCount,
                               written>>
           ELSE IF \E i \in 1..Len(imgs) : getTitle(items[imgs[i]]) = << >>
           THEN NumberPrePass(imgs)
           ELSE /\ orderedImages' = NumberOrder(items, imgs)
                /\ images' = imgs
                /\ pc' = "align"
                /\ UNCHANGED <<items, k, meta, pendingSync, syncCount, written,
                               notifications>>
    /\ UNCHANGED <<str, num, form, selection>>

\* The comparator of meta.sort in sortImagesByColor: b.y - a.y.
ColorCompare(a, b) ==
    b.y - a.y

SampledLuminances ==
    {2, 9}

\* The end of sortImagesByColor, `m` being the completed meta array.
ColorOrder(m) ==
    IF m = << >> THEN sortByGeometry(items, images)
    ELSE LET sorted == StableSort(m, [i \in 1..Len(m) |-> [j \in 1..Len(m) |->
                                        ColorCompare(m[i], m[j])]])
         IN  [i \in 1..Len(m) |-> sorted[i].img]

\* One turn of the loop of sortImagesByColor, on images[k]; `y` is what the
\* turn pushes to meta (NULL: nothing).  After the last turn the order is
\* computed.
ColorTurn(y) ==
    LET m == IF y = NULL THEN meta ELSE Append(meta, [img |-> images[k], y |-> y])
    IN  /\ meta' = m
        /\ k' = k + 1
        /\ IF k = Len(images)
           THEN /\ orderedImages' = ColorOrder(m)
                /\ pc' = "align"
           ELSE UNCHANGED <<orderedImages, pc>>
        /\ UNCHANGED <<str, num, form, selection, items, images, pendingSync,
                       syncCount, written, notifications>>

\* images[k] carries metadata.imageGridAligner.brightness.
ColorFromMetadata ==
    /\ pc = "color"
    /\ k <= Len(images)
    /\ items[images[k]].brightness # NULL
    /\ ColorTurn(items[images[k]].brightness)

\* No brightness and getImageUrlFromWidget gives null: the image is skipped.
ColorNoUrl ==
    /\ pc = "color"
    /\ k <= Len(images)
    /\ items[images[k]].brightness = NULL
    /\ ~items[images[k]].url
    /\ ColorTurn(NULL)

\* loadImage resolved and the luminance was computed.
ColorSampled ==
    /\ pc = "color"
    /\ k <= Len(images)
    /\ items[images[k]].brightness = NULL
    /\ items[images[k]].url
    /\ \E yy \in SampledLuminances : ColorTurn(yy)

\* loadImage rejected, or getImageData threw and the luminance is null.
ColorSamplingFailed ==
    /\ pc = "color"
    /\ k <= Len(images)
    /\ items[images[k]].brightness = NULL
    /\ items[images[k]].url
    /\ ColorTurn(NeutralLuminance)

\* The placement of alignImagesInGivenOrder: the packed rows are computed,
\* x and y are assigned and every image is synced.
PlaceImages ==
    /\ items' = Stored(items, orderedImages,
                       PackedRows(Records(items, orderedImages), config))
    /\ written' = written \cup {"x", "y"}
    /\ pendingSync' = Range(orderedImages)
    /\ syncCount' = syncCount + Len(orderedImages)
    /\ pc' = "positionSync"

\* alignImagesInGivenOrder with the resize syncs not awaited: the placement
\* follows the resize at once.
Align_mut ==
    /\ pc = "align"
    /\ IF orderedImages = << >>
       THEN /\ notifications' = Notified("info", "done", 0)
            /\ pc' = "done"
            /\ UNCHANGED <<items, written, pendingSync, syncCount>>
       ELSE /\ items' = Stored(items, orderedImages,
                    PackedRows(ResizeImages(Records(items, orderedImages),
                                            config.sizeMode), config))
            /\ written' = written \cup {"x", "y"}
                    \cup (IF config.sizeMode = "none" THEN {} ELSE {config.sizeMode})
            /\ pendingSync' = Range(orderedImages)
            /\ syncCount' = syncCount + Len(orderedImages)
                    * (IF config.sizeMode = "none" THEN 1 ELSE 2)
            /\ pc' = "positionSync"
            /\ UNCHANGED notifications
    /\ UNCHANGED <<str, num, form, selection, images, orderedImages, k, meta>>

\* alignImagesInGivenOrder is called: the resize when the size mode asks for
\* one, the placement otherwise.
Align ==
    /\ pc = "align"
    /\ IF orderedImages = << >>
       THEN /\ notifications' = Notified("info", "done", 0)
            /\ pc' = "done"
            /\ UNCHANGED <<items, written, pendingSync, syncCount>>
       ELSE IF config.sizeMode \in {"width", "height"}
       THEN /\ items' = Stored(items, orderedImages,
                    ResizeImages(Records(items, orderedImages), config.sizeMode))
            /\ written' = written \cup {config.sizeMode}
            /\ pendingSync' = Range(orderedImages)
            /\ syncCount' = syncCount + Len(orderedImages)
            /\ pc' = "resizeSync"
            /\ UNCHANGED notifications
       ELSE PlaceImages /\ UNCHANGED notifications
    /\ UNCHANGED <<str, num, form, selection, images, orderedImages, k, meta>>

\* The resize syncs all resolved: the placement.
Place ==
    /\ pc = "place"
    /\ PlaceImages
    /\ UNCHANGED <<str, num, form, selection, images, orderedImages, k, meta,
                   notifications>>

\* A sync() resolves.  When it is the last one the handler awaits, the
\* handler goes on: to the ordering, to the placement, or to its end.
SyncResolve ==
    \E id \in pendingSync :
        /\ pendingSync' = pendingSync \ {id}
        /\ IF pendingSync' # {} \/ pc = "done"
           THEN UNCHANGED <<pc, orderedImages, notifications>>
           ELSE IF pc = "titleSync"
           THEN /\ orderedImages' = NumberOrder(items, images)
                /\ pc' = "align"
                /\ UNCHANGED notifications
           ELSE IF pc = "resizeSync"
           THEN /\ pc' = "place"
                /\ UNCHANGED <<orderedImages, notifications>>
           ELSE /\ notifications' = Notified("info", "done", Len(orderedImages))
                /\ pc' = "done"
                /\ UNCHANGED orderedImages
        /\ UNCHANGED <<str, num, form, selection, items, images, k, meta,
                       syncCount, written>>

\* A catch block that puts the widgets back as they were selected and syncs
\* them again.
SyncReject_mut ==
    \E id \in pendingSync :
        /\ pc \in {"titleSync", "resizeSync", "positionSync"}
        /\ pendingSync' = pendingSync \ {id}
        /\ notifications' = Notified("error", "wrong", 0)
        /\ pc' = "done"
        /\ items' = selection
        /\ syncCount' = syncCount + Len(images)
        /\ UNCHANGED <<str, num, form, selection, images, orderedImages,
                       k, meta, written>>

\* A sync() the handler awaits rejects: Promise.all rejects, the catch block
\* shows the error and the handler ends.
SyncReject ==
    \E id \in pendingSync :
        /\ pc \in {"titleSync", "resizeSync", "positionSync"}
        /\ pendingSync' = pendingSync \ {id}
        /\ notifications' = Notified("error", "wrong", 0)
        /\ pc' = "done"
        /\ UNCHANGED <<str, num, form, selection, items, images, orderedImages,
                       k, meta, syncCount, written>>

(***************************************************************************)
(* The specification of handleSortingSubmit                                *)
(***************************************************************************)
\* The sequences over S of length at most n.
SeqsUpTo(S, n) ==
    UNION {[1..m -> S] : m \in 0..n}

\* A selected item that is no image.
Shape ==
    [type |-> "shape", title |-> << >>, x |-> 0, y |-> 0, width |-> 2,
     height |-> 2, brightness |-> NULL, url |-> FALSE]

\* Images for the number mode: titles "", "b_7" and "x", one above the other.
NumberItems ==
    [type : {"image"}, title : {<< >>, <<98, 95, 55>>, <<120>>}, x : {0},
     y : {0, 4}, width : {2}, height : {2}, brightness : {NULL}, url : {FALSE}]

\* Images for the color mode: with a cached brightness, with an image URL
\* only, or with neither.
ColorItems ==
    {i \in [type : {"image"}, title : {<<120>>}, x : {0}, y : {0, 4},
            width : {2}, height : {2}, brightness : {NULL, 3, 7},
            url : BOOLEAN] :
        i.brightness # NULL => ~i.url}

NumberForms ==
    [sortingImagesPerRow : {-1, 0, 2}, sortingHorizontalGap : {0},
     sortingVerticalGap : {0}, sortingSizeMode : {"none", "width"},
     sortingStartCorner : {"top-left", "bottom-right"},
     sortingSortMode : {"number"}, strictNumberValidation : BOOLEAN]

ColorForms ==
    [sortingImagesPerRow : {-1, 0, 2}, sortingHorizontalGap : {0},
     sortingVerticalGap : {0}, sortingSizeMode : {"none", "width"},
     sortingStartCorner : {"top-left", "bottom-right"},
     sortingSortMode : {"color"}, strictNumberValidation : {FALSE}]

\* Nothing has run yet on the selection.
Fresh ==
    /\ items = selection
    /\ k = 0
    /\ meta = << >>
    /\ pendingSync = {}
    /\ syncCount = 0
    /\ written = {}
    /\ notifications = << >>
    /\ str = << >>
    /\ num = NULL

Init ==
    /\ pc = "idle"
    /\ \/ form \in NumberForms /\ selection \in SeqsUpTo(NumberItems \cup {Shape}, MaxItems)
       \/ form \in ColorForms /\ selection \in SeqsUpTo(ColorItems \cup {Shape}, MaxItems)
    /\ images = << >>
    /\ orderedImages = << >>
    /\ Fresh

Next ==
    \/ Submit
    \/ SelectionResolved
    \/ ColorFromMetadata
    \/ ColorNoUrl
    \/ ColorSampled
    \/ ColorSamplingFailed
    \/ Align
    \/ Place
    \/ SyncResolve
    \/ SyncReject

Spec ==
    Init /\ [][Next]_vars

(***************************************************************************)
(* extractTrailingNumber on its own                                        *)
(***************************************************************************)
\* Line feed, "0", "1", "2", "a".
Alphabet ==
    {10, 48, 49, 50, 97}

Extract ==
    /\ pc = "extract"
    /\ num' = extractTrailingNumber(str)
    /\ pc' = "extracted"
    /\ UNCHANGED <<str, form, selection, items, images, orderedImages, k, meta,
                   pendingSync, syncCount, written, notifications>>

\* The form when no handler reads it.
NoForm ==
    [sortingImagesPerRow |-> 1, sortingHorizontalGap |-> 0,
     sortingVerticalGap |-> 0, sortingSizeMode |-> "none",
     sortingStartCorner |-> "top-left", sortingSortMode |-> "number",
     strictNumberValidation |-> FALSE]

InitExtract ==
    /\ pc = "extract"
    /\ str \in SeqsUpTo(Alphabet, MaxLen)
    /\ num = NULL
    /\ form = NoForm
    /\ selection = << >>
    /\ items = << >>
    /\ images = << >>
    /\ orderedImages = << >>
    /\ k = 0
    /\ meta = << >>
    /\ pendingSync = {}
    /\ syncCount = 0
    /\ written = {}
    /\ notifications = << >>

SpecExtract ==
    InitExtract /\ [][Extract]_vars

(***************************************************************************)
(* The orderings on their own: an array of images, all of them selected.   *)
(***************************************************************************)
\* 1, 2, .. n
Identity(n) ==
    [i \in 1..n |-> i]

\* "b_2", "a_1", "c", "B_2", "a01", "C", "a10", "a9"
SortTitles ==
    {<<98, 95, 50>>, <<97, 95, 49>>, <<99>>, <<66, 95, 50>>, <<97, 48, 49>>,
     <<67>>, <<97, 49, 48>>, <<97, 57>>}

SortItems ==
    [type : {"image"}, title : SortTitles, x : {0}, y : {0}, width : {2},
     height : {2}, brightness : {NULL}, url : {FALSE}]

GeometryItems ==
    [type : {"image"}, title : {<<120>>}, x : {0, 4}, y : {0, 1, 4},
     width : {2}, height : {2, 4}, brightness : {NULL}, url : {FALSE}]

\* sortImagesByNumber on titles none of which is empty.
SortNumber ==
    /\ pc = "number"
    /\ orderedImages' = NumberOrder(items, images)
    /\ pc' = "sorted"
    /\ UNCHANGED <<str, num, form, selection, items, images, k, meta,
                   pendingSync, syncCount, written, notifications>>

\* sortByGeometry(images)
SortGeometry ==
    /\ pc = "geometry"
    /\ orderedImages' = sortByGeometry(items, images)
    /\ pc' = "sorted"
    /\ UNCHANGED <<str, num, form, selection, items, images, k, meta,
                   pendingSync, syncCount, written, notifications>>

InitSort ==
    /\ pc = "number"
    /\ form = NoForm
    /\ selection \in SeqsUpTo(SortItems, MaxLayoutItems)
    /\ images = Identity(Len(selection))
    /\ orderedImages = << >>
    /\ Fresh

InitGeometry ==
    /\ pc = "geometry"
    /\ form = NoForm
    /\ selection \in SeqsUpTo(GeometryItems, MaxLayoutItems)
    /\ images = Identity(Len(selection))
    /\ orderedImages = << >>
    /\ Fresh

SpecSort ==
    InitSort /\ [][SortNumber]_vars

SpecGeometry ==
    InitGeometry /\ [][SortGeometry]_vars

(***************************************************************************)
(* sortImagesByTitleAndNumber(images, false): the alphabetical ordering of *)
(* the align-form revisions.                                               *)
(***************************************************************************)
\* The comparator that compares the titles as they are, not lower-cased.
AlphabeticalCompare_mut(a, b) ==
    IF StrLess(a.title, b.title) THEN -1
    ELSE IF StrLess(b.title, a.title) THEN 1
    ELSE a.index - b.index

\* The comparator of meta.sort when sortByNumber is false.
AlphabeticalCompare(a, b) ==
    IF StrLess(a.titleLower, b.titleLower) THEN -1
    ELSE IF StrLess(b.titleLower, a.titleLower) THEN 1
    ELSE a.index - b.index

\* sortImagesByTitleAndNumber with sortByNumber false, on widget indices.
AlphabeticalOrder(objs, imgs) ==
    LET m == [index \in 1..Len(imgs) |->
                LET title == getTitle(objs[imgs[index]])
                IN  [item |-> imgs[index], index |-> index, title |-> title,
                     titleLower |-> ToLowerCase(title)]]
        sorted == StableSort(m, [i \in 1..Len(m) |-> [j \in 1..Len(m) |->
                                    AlphabeticalCompare(m[i], m[j])]])
    IN  [i \in 1..Len(imgs) |-> sorted[i].item]

SortAlphabetical ==
    /\ pc = "alphabetical"
    /\ orderedImages' = AlphabeticalOrder(items, images)
    /\ pc' = "sorted"
    /\ UNCHANGED <<str, num, form, selection, items, images, k, meta,
                   pendingSync, syncCount, written, notifications>>

InitAlphabetical ==
    /\ pc = "alphabetical"
    /\ form = NoForm
    /\ selection \in SeqsUpTo(SortItems, MaxLayoutItems)
    /\ images = Identity(Len(selection))
    /\ orderedImages = << >>
    /\ Fresh

SpecAlphabetical ==
    InitAlphabetical /\ [][SortAlphabetical]_vars

(***************************************************************************)
(* The orderings under an Array.prototype.sort that need not be stable: it *)
(* returns some arrangement of the array that the comparator accepts, not  *)
(* necessarily the one that keeps equal elements in their array order.     *)
(***************************************************************************)
Arrangements(n) ==
    {f \in [1..n -> 1..n] : \A i, j \in 1..n : i # j => f[i] # f[j]}

\* The arrangements of seq in which no element is followed by one the
\* comparator puts before it; cmp[i][j] is its result on seq[i] and seq[j].
SortResults(seq, cmp) ==
    LET n == Len(seq)
    IN  {[r \in 1..n |-> seq[f[r]]] :
            f \in {g \in Arrangements(n) :
                    \A p, q \in 1..n : p < q => cmp[g[p]][g[q]] <= 0}}

Strategies ==
    {"number", "alphabetical", "geometry", "color"}

\* The array a strategy sorts: the meta records of sortImagesByNumber, of
\* sortImagesByTitleAndNumber and of sortImagesByColor (for images with a
\* cached brightness), the images themselves for sortByGeometry.
MetaOf(strategy, objs, imgs) ==
    [index \in 1..Len(imgs) |->
        LET o == objs[imgs[index]]
            title == getTitle(o)
            n == extractTrailingNumber(title)
        IN  IF strategy = "number"
            THEN [img |-> imgs[index], index |-> index, title |-> title,
                  lower |-> ToLowerCase(title), hasNumber |-> n # NULL, num |-> n]
            ELSE IF strategy = "alphabetical"
            THEN [img |-> imgs[index], index |-> index, title |-> title,
                  titleLower |-> ToLowerCase(title)]
            ELSE IF strategy = "geometry"
            THEN [img |-> imgs[index], x |-> o.x, y |-> o.y]
            ELSE [img |-> imgs[index], y |-> o.brightness]]

\* The comparator a strategy passes to sort.
CompareOf(strategy, a, b) ==
    IF strategy = "number" THEN NumberCompare(a, b)
    ELSE IF strategy = "alphabetical" THEN AlphabeticalCompare(a, b)
    ELSE IF strategy = "geometry" THEN GeometryCompare(a, b)
    ELSE ColorCompare(a, b)

\* The orders a strategy can return when sort need not be stable.
OrdersOf(strategy, objs, imgs) ==
    LET m == MetaOf(strategy, objs, imgs)
        cmp == [i \in 1..Len(m) |-> [j \in 1..Len(m) |->
                    CompareOf(strategy, m[i], m[j])]]
    IN  {[r \in 1..Len(m) |-> sorted[r].img] : sorted \in SortResults(m, cmp)}

\* Images with titles "a_1", "A_1" and "c", at two heights, with a cached
\* brightness of 0.3 or 0.7.
AnySortItems ==
    [type : {"image"}, title : {<<97, 95, 49>>, <<65, 95, 49>>, <<99>>},
     x : {0}, y : {0, 4}, width : {2}, height : {2}, brightness : {3, 7},
     url : {FALSE}]

SortAnyNumber ==
    /\ pc = "anysort"
    /\ sortMode = "number"
    /\ orderedImages' \in OrdersOf("number", items, images)
    /\ pc' = "sorted"
    /\ UNCHANGED <<str, num, form, selection, items, images, k, meta,
                   pendingSync, syncCount, written, notifications>>

SortAnyAlphabetical ==
    /\ pc = "anysort"
    /\ sortMode = "alphabetical"
    /\ orderedImages' \in OrdersOf("alphabetical", items, images)
    /\ pc' = "sorted"
    /\ UNCHANGED <<str, num, form, selection, items, images, k, meta,
                   pendingSync, syncCount, written, notifications>>

SortAnyGeometry ==
    /\ pc = "anysort"
    /\ sortMode = "geometry"
    /\ orderedImages' \in OrdersOf("geometry", items, images)
    /\ pc' = "sorted"
    /\ UNCHANGED <<str, num, form, selection, items, images, k, meta,
                   pendingSync, syncCount, written, notifications>>

SortAnyColor ==
    /\ pc = "anysort"
    /\ sortMode = "color"
    /\ orderedImages' \in OrdersOf("color", items, images)
    /\ pc' = "sorted"
    /\ UNCHANGED <<str, num, form, selection, items, images, k, meta,
                   pendingSync, syncCount, written, notifications>>

InitAnySort ==
    /\ pc = "anysort"
    /\ \E strategy \in Strategies :
            form = [NoForm EXCEPT !.sortingSortMode = strategy]
    /\ selection \in SeqsUpTo(AnySortItems, MaxLayoutItems)
    /\ images = Identity(Len(selection))
    /\ orderedImages = << >>
    /\ Fresh

NextAnySort ==
    \/ SortAnyNumber
    \/ SortAnyAlphabetical
    \/ SortAnyGeometry
    \/ SortAnyColor

SpecAnySort ==
    InitAnySort /\ [][NextAnySort]_vars

(***************************************************************************)
(* alignImagesInGivenOrder on its own, every sync() resolving: the uniform *)
(* grid of the first Sorting revision and the packed rows of the last.     *)
(***************************************************************************)
\* The effects of a whole alignImagesInGivenOrder but the new geometry.
Aligned ==
    /\ written' = written \cup {"x", "y"}
                  \cup (IF config.sizeMode = "none" THEN {} ELSE {config.sizeMode})
    /\ syncCount' = syncCount + Len(orderedImages)
                    * (IF config.sizeMode = "none" THEN 1 ELSE 2)
    /\ UNCHANGED <<str, num, form, selection, images, orderedImages, k, meta,
                   pendingSync, notifications>>

AlignUniform ==
    /\ pc = "layout"
    /\ items' = Stored(items, orderedImages,
            UniformGrid(ResizeImages(Records(items, orderedImages),
                                     config.sizeMode), config))
    /\ pc' = "uniform"
    /\ Aligned

AlignPacked ==
    /\ pc = "layout"
    /\ items' = Stored(items, orderedImages,
            PackedRows(ResizeImages(Records(items, orderedImages),
                                    config.sizeMode), config))
    /\ pc' = "packed"
    /\ Aligned

GapValues ==
    {0, 1}

LayoutForms ==
    [sortingImagesPerRow : 1..MaxCols, sortingHorizontalGap : GapValues,
     sortingVerticalGap : GapValues,
     sortingSizeMode : {"none", "width", "height"},
     sortingStartCorner : Corners, sortingSortMode : {"number"},
     strictNumberValidation : {FALSE}]

\* Rectangles 1 x 1, 2 x 1 and 1 x 2 board units, at two places.
LayoutItems ==
    {i \in [type : {"image"}, title : {<<120>>}, x : {0, 3}, y : {0, 5},
            width : {2, 4}, height : {2, 4}, brightness : {NULL},
            url : {FALSE}] :
        /\ (i.x = 0) = (i.y = 0)
        /\ i.width = 2 \/ i.height = 2}

\* Unit squares at two places.
UnitItems ==
    {i \in LayoutItems : i.width = 2 /\ i.height = 2}

InitLayout ==
    /\ pc = "layout"
    /\ form \in LayoutForms
    /\ selection \in SeqsUpTo(LayoutItems, MaxLayoutItems)
    /\ selection # << >>
    /\ images = Identity(Len(selection))
    /\ orderedImages = Identity(Len(selection))
    /\ Fresh

InitUnit ==
    /\ pc = "layout"
    /\ form \in LayoutForms
    /\ selection \in SeqsUpTo(UnitItems, MaxUnitItems)
    /\ selection # << >>
    /\ images = Identity(Len(selection))
    /\ orderedImages = Identity(Len(selection))
    /\ Fresh

NextLayout ==
    \/ AlignUniform
    \/ AlignPacked

SpecLayout ==
    InitLayout /\ [][NextLayout]_vars

SpecUnit ==
    InitUnit /\ [][NextLayout]_vars

(***************************************************************************)
(* alignImagesInGivenOrder on images of any size of at least 0: a width or *)
(* a height may be 0.                                                      *)
(***************************************************************************)
\* Rectangles whose width is 0, 1 or 2 board units and whose height is 0 or
\* 1, all at one place.
SizedItems ==
    [type : {"image"}, title : {<<120>>}, x : {0}, y : {0}, width : {0, 2, 4},
     height : {0, 2}, brightness : {NULL}, url : {FALSE}]

InitSized ==
    /\ pc = "layout"
    /\ form \in LayoutForms
    /\ selection \in SeqsUpTo(SizedItems, MaxLayoutItems)
    /\ selection # << >>
    /\ images = Identity(Len(selection))
    /\ orderedImages = Identity(Len(selection))
    /\ Fresh

SpecSized ==
    InitSized /\ [][NextLayout]_vars

(***************************************************************************)
(* Two runs of handleSortingSubmit on one board.  A submit event starts a  *)
(* run of the handler; a run is suspended at board.getSelection() and at   *)
(* the position syncs.  In this specification pc, form, items, images and  *)
(* orderedImages hold one value for each run, selection is the board (what *)
(* getSelection resolves with: a run gets its own widget objects, copies   *)
(* of the board's items at that time), and pendingSync holds the sync()    *)
(* calls in flight, each with the widget object it carries; the board      *)
(* takes over the object when the call resolves, and the calls in flight   *)
(* resolve in any order.  The images are labelled and the forms ask for no *)
(* resize: a run goes from the selection straight to the placement.        *)
(***************************************************************************)
Ops ==
    {1, 2}

\* The constants a run of handleSortingSubmit reads from the form f.
ConfigOf(f) ==
    [imagesPerRow  |-> FormNumber(f.sortingImagesPerRow, 1),
     horizontalGap |-> FormNumber(f.sortingHorizontalGap, 0),
     verticalGap   |-> FormNumber(f.sortingVerticalGap, 0),
     sizeMode      |-> f.sortingSizeMode,
     startCorner   |-> f.sortingStartCorner]

\* A handler with an in-flight guard: no run starts while another one is
\* under way.
SubmitAllowed_mut(o) ==
    \A p \in Ops : pc[p] \in {"idle", "done"}

\* What handleSortingSubmit checks before it starts to work: nothing.
SubmitAllowed(o) ==
    TRUE

\* A submit event: a run of the handler starts, reads the form and calls
\* board.getSelection().
ConcurrentSubmit(o) ==
    /\ pc[o] = "idle"
    /\ SubmitAllowed(o)
    /\ pc' = [pc EXCEPT ![o] = "getSelection"]
    /\ UNCHANGED <<str, num, form, selection, items, images, orderedImages, k,
                   meta, pendingSync, syncCount, written, notifications>>

\* board.getSelection() resolved for run o: the two validations, the number
\* ordering, the placement, and a sync() call for every image.
ConcurrentSelectionResolved(o) ==
    /\ pc[o] = "getSelection"
    /\ LET imgs == ImagesOf(selection, Len(selection))
           c == ConfigOf(form[o])
       IN  IF imgs = << >>
           THEN /\ notifications' = Append(notifications,
                        [level |-> "info", message |-> "select", count |-> 0])
                /\ pc' = [pc EXCEPT ![o] = "done"]
                /\ images' = [images EXCEPT ![o] = imgs]
                /\ UNCHANGED <<items, orderedImages, pendingSync, syncCount,
                               written>>
           ELSE IF c.imagesPerRow < 1
           THEN /\ notifications' = Append(notifications,
                        [level |-> "error", message |-> "imagesPerRow", count |-> 0])
                /\ pc' = [pc EXCEPT ![o] = "done"]
                /\ images' = [images EXCEPT ![o] = imgs]
                /\ UNCHANGED <<items, orderedImages, pendingSync, syncCount,
                               written>>
           ELSE \E order \in {NumberOrder(selection, imgs)} :
                \E placed \in {Stored(selection, order,
                                      PackedRows(Records(selection, order), c))} :
                    /\ images' = [images EXCEPT ![o] = imgs]
                    /\ orderedImages' = [orderedImages EXCEPT ![o] = order]
                    /\ items' = [items EXCEPT ![o] = placed]
                    /\ written' = written \cup {"x", "y"}
                    /\ pendingSync' = pendingSync \cup
                            {[op |-> o, id |-> id, item |-> placed[id]] :
                                id \in Range(order)}
                    /\ syncCount' = syncCount + Len(order)
                    /\ pc' = [pc EXCEPT ![o] = "positionSync"]
                    /\ UNCHANGED notifications
    /\ UNCHANGED <<str, num, form, selection, k, meta>>

\* A sync() call resolves: the board has taken over the widget object.  When
\* it is the last call its run awaits, the run shows "Done" and ends.
ConcurrentSyncResolve ==
    \E call \in pendingSync :
        /\ pendingSync' = pendingSync \ {call}
        /\ selection' = [selection EXCEPT ![call.id] = call.item]
        /\ IF /\ pc[call.op] = "positionSync"
              /\ \A other \in pendingSync' : other.op # call.op
           THEN /\ notifications' = Append(notifications,
                        [level |-> "info", message |-> "done",
                         count |-> Len(orderedImages[call.op])])
                /\ pc' = [pc EXCEPT ![call.op] = "done"]
           ELSE UNCHANGED <<pc, notifications>>
        /\ UNCHANGED <<str, num, form, items, images, orderedImages, k, meta,
                       syncCount, written>>

\* A sync() call a run awaits rejects: the board keeps its item, the run's
\* catch block shows the error and the run ends.
ConcurrentSyncReject ==
    \E call \in pendingSync :
        /\ pc[call.op] = "positionSync"
        /\ pendingSync' = pendingSync \ {call}
        /\ notifications' = Append(notifications,
                [level |-> "error", message |-> "wrong", count |-> 0])
        /\ pc' = [pc EXCEPT ![call.op] = "done"]
        /\ UNCHANGED <<str, num, form, selection, items, images, orderedImages,
                       k, meta, syncCount, written>>

\* Unit squares labelled "a_1" and "b_2", at two places.
ConcurrentItems ==
    {i \in [type : {"image"}, title : {<<97, 95, 49>>, <<98, 95, 50>>},
            x : {0, 3}, y : {0, 5}, width : {2}, height : {2},
            brightness : {NULL}, url : {FALSE}] :
        /\ (i.x = 0) = (i.y = 0)
        /\ (i.x = 0) = (i.title = <<97, 95, 49>>)}

ConcurrentForms ==
    [sortingImagesPerRow : {1, 2}, sortingHorizontalGap : {0},
     sortingVerticalGap : {0}, sortingSizeMode : {"none"},
     sortingStartCorner : {"top-left", "bottom-right"},
     sortingSortMode : {"number"}, strictNumberValidation : {FALSE}]

InitConcurrent ==
    /\ pc = [o \in Ops |-> "idle"]
    /\ form \in [Ops -> ConcurrentForms]
    /\ selection \in SeqsUpTo(ConcurrentItems \cup {Shape}, MaxItems)
    /\ items = [o \in Ops |-> << >>]
    /\ images = [o \in Ops |-> << >>]
    /\ orderedImages = [o \in Ops |-> << >>]
    /\ k = 0
    /\ meta = << >>
    /\ pendingSync = {}
    /\ syncCount = 0
    /\ written = {}
    /\ notifications = << >>
    /\ str = << >>
    /\ num = NULL

NextConcurrent ==
    \/ \E o \in Ops : ConcurrentSubmit(o)
    \/ \E o \in Ops : ConcurrentSelectionResolved(o)
    \/ ConcurrentSyncResolve
    \/ ConcurrentSyncReject

SpecConcurrent ==
    InitConcurrent /\ [][NextConcurrent]_vars

(***************************************************************************)
(* handleStitchSubmit: the import of image files.  In this specification   *)
(* selection is input.files (the chosen files, each with its name and the  *)
(* size of its picture), images is sortedFiles (indices into the files), k *)
(* is the loop's i + 1, num the brightness computed for the current file,  *)
(* items are the board images created so far, orderedImages is             *)
(* createdImages, and meta is the panel: stitchButton.disabled and         *)
(* progressEl.textContent.                                                 *)
(***************************************************************************)
\* The order of sortFilesByNameWithNumber: indices into files, by number,
\* then lower-cased name, then index.  Its comparator is NumberCompare's.
sortFilesByNameWithNumber(files) ==
    LET arr == [index \in 1..Len(files) |->
                    LET name == files[index].name
                        n == extractTrailingNumber(name)
                    IN  [file |-> index, index |-> index, name |-> name,
                         lower |-> ToLowerCase(name), hasNumber |-> n # NULL,
                         num |-> n]]
        sorted == StableSort(arr, [i \in 1..Len(arr) |-> [j \in 1..Len(arr) |->
                                    NumberCompare(arr[i], arr[j])]])
    IN  [i \in 1..Len(files) |-> sorted[i].file]

\* The layout of the import with a horizontal gap of one unit.
StitchConfig_mut ==
    [imagesPerRow  |-> FormNumber(form.stitchImagesPerRow, 1),
     horizontalGap |-> 2,
     verticalGap   |-> 0,
     sizeMode      |-> "none",
     startCorner   |-> form.stitchStartCorner]

\* The config handleStitchSubmit passes to alignImagesInGivenOrder.
StitchConfig ==
    [imagesPerRow  |-> FormNumber(form.stitchImagesPerRow, 1),
     horizontalGap |-> 0,
     verticalGap   |-> 0,
     sizeMode      |-> "none",
     startCorner   |-> form.stitchStartCorner]

\* A finally block that enables the button only when no error was shown.
Finally_mut ==
    /\ meta' = [meta EXCEPT !.disabled =
                    /\ meta.disabled
                    /\ notifications[Len(notifications)].level = "error"]
    /\ pc' = "done"

\* finally { stitchButton.disabled = false }: the handler ends.
Finally ==
    /\ meta' = [meta EXCEPT !.disabled = FALSE]
    /\ pc' = "done"

\* The submit event: the two validations, then the button is disabled, the
\* files are ordered and the first file is read.
StitchSubmit ==
    /\ pc = "idle"
    /\ IF selection = << >>
       THEN /\ notifications' = Notified("error", "choose", 0)
            /\ pc' = "validation"
            /\ UNCHANGED <<images, k, meta>>
       ELSE IF StitchConfig.imagesPerRow < 1
       THEN /\ notifications' = Notified("error", "imagesPerRow", 0)
            /\ pc' = "validation"
            /\ UNCHANGED <<images, k, meta>>
       ELSE /\ meta' = [disabled |-> TRUE, progress |-> "Importing"]
            /\ images' = sortFilesByNameWithNumber(selection)
            /\ k' = 1
            /\ pc' = "read"
            /\ UNCHANGED notifications
    /\ UNCHANGED <<str, num, form, selection, items, orderedImages,
                   pendingSync, syncCount, written>>

\* readFileAsDataUrl(file) resolved: loadImage(dataUrl) is called.
FileRead ==
    /\ pc = "read"
    /\ pc' = "load"
    /\ UNCHANGED <<str, num, form, selection, items, images, orderedImages, k,
                   meta, pendingSync, syncCount, written, notifications>>

\* loadImage resolved and the luminance was computed
\* (brightness = y), or it rejected or the luminance is null (brightness
\* stays 0.5); board.createImage is called.
BrightnessComputed ==
    /\ pc = "load"
    /\ num' \in SampledLuminances \cup {NeutralLuminance}
    /\ pc' = "create"
    /\ UNCHANGED <<str, form, selection, items, images, orderedImages, k,
                   meta, pendingSync, syncCount, written, notifications>>

\* board.createImage resolved: the image is pushed to createdImages.  After
\* the last file alignImagesInGivenOrder lays the created images out and
\* syncs them; otherwise the next file is read.
ImageCreated ==
    /\ pc = "create"
    /\ LET i == k - 1
           file == selection[images[k]]
           img == [type |-> "image", title |-> file.name,
                   x |-> 2 * ((i % 5) * 50), y |-> 2 * ((i \div 5) * 50),
                   width |-> file.width, height |-> file.height,
                   brightness |-> num, url |-> TRUE]
           created == Append(items, img)
           createdImages == Append(orderedImages, Len(created))
       IN  /\ orderedImages' = createdImages
           /\ IF k < Len(images)
              THEN /\ items' = created
                   /\ k' = k + 1
                   /\ pc' = "read"
                   /\ UNCHANGED <<meta, pendingSync, syncCount, written>>
              ELSE /\ items' = Stored(created, createdImages,
                            PackedRows(Records(created, createdImages), StitchConfig))
                   /\ meta' = [meta EXCEPT !.progress = "Aligning"]
                   /\ written' = written \cup {"x", "y"}
                   /\ pendingSync' = Range(createdImages)
                   /\ syncCount' = syncCount + Len(createdImages)
                   /\ pc' = "positionSync"
                   /\ UNCHANGED k
    /\ num' = NULL
    /\ UNCHANGED <<str, form, selection, images, notifications>>

\* A position sync resolves; after the last one board.viewport.zoomTo is
\* called.
StitchSyncResolve ==
    /\ pc = "positionSync"
    /\ \E id \in pendingSync :
        /\ pendingSync' = pendingSync \ {id}
        /\ pc' = IF pendingSync' = {} THEN "zoom" ELSE pc
    /\ UNCHANGED <<str, num, form, selection, items, images, orderedImages, k,
                   meta, syncCount, written, notifications>>

\* zoomTo resolved, or it rejected and the inner catch went on: "Done." and
\* the info notification.
Zoomed ==
    /\ pc = "zoom"
    /\ meta' = [meta EXCEPT !.progress = "Done"]
    /\ notifications' = Notified("info", "stitched", Len(orderedImages))
    /\ pc' = "showInfo"
    /\ UNCHANGED <<str, num, form, selection, items, images, orderedImages, k,
                   pendingSync, syncCount, written>>

\* An awaited call of the try block rejects (a notification, the reading of
\* a file, createImage, a position sync): the catch block shows the error.
StitchRejected ==
    /\ \/ pc \in {"validation", "read", "create", "showInfo"}
          /\ UNCHANGED pendingSync
       \/ pc = "positionSync"
          /\ \E id \in pendingSync : pendingSync' = pendingSync \ {id}
    /\ meta' = [meta EXCEPT !.progress = "Error"]
    /\ notifications' = Notified("error", "wrong", 0)
    /\ pc' = "catch"
    /\ UNCHANGED <<str, num, form, selection, items, images, orderedImages, k,
                   syncCount, written>>

\* The last notification of the handler settled (a validation error or the
\* final info resolved; the catch block's error resolved or rejected): the
\* finally block.
StitchEnd ==
    /\ pc \in {"validation", "showInfo", "catch"}
    /\ Finally
    /\ UNCHANGED <<str, num, form, selection, items, images, orderedImages, k,
                   pendingSync, syncCount, written, notifications>>

\* Files "b_2", "a_1", "a10" and "c", their pictures 1 x 1 or 2 x 1 units.
StitchFiles ==
    [name : {<<98, 95, 50>>, <<97, 95, 49>>, <<97, 49, 48>>, <<99>>},
     width : {2, 4}, height : {2}]

StitchForms ==
    [stitchImagesPerRow : {-1, 0, 2},
     stitchStartCorner : {"top-left", "bottom-right"}]

InitStitch ==
    /\ pc = "idle"
    /\ form \in StitchForms
    /\ selection \in SeqsUpTo(StitchFiles, MaxItems)
    /\ meta = [disabled |-> FALSE, progress |-> ""]
    /\ items = << >>
    /\ images = << >>
    /\ orderedImages = << >>
    /\ k = 0
    /\ pendingSync = {}
    /\ syncCount = 0
    /\ written = {}
    /\ notifications = << >>
    /\ str = << >>
    /\ num = NULL

NextStitch ==
    \/ StitchSubmit
    \/ FileRead
    \/ BrightnessComputed
    \/ ImageCreated
    \/ StitchSyncResolve
    \/ Zoomed
    \/ StitchRejected
    \/ StitchEnd

SpecStitch ==
    InitStitch /\ [][NextStitch]_vars

(***************************************************************************)
(* compareByGeometry on its own: the comparator of sortImages applied to   *)
(* every pair of an array of images.  meta[i][j] is its result on the      *)
(* images i and j.                                                         *)
(***************************************************************************)
\* Images 1 or 2 units high whose centres are half a unit apart vertically.
CompareItems ==
    [type : {"image"}, title : {<<120>>}, x : {0, 2, 4}, y : {0, 1, 2},
     width : {2}, height : {2, 4}, brightness : {NULL}, url : {FALSE}]

\* What withMeta.sort((a, b) => compareByGeometry(a.item, b.item)) gets
\* from its comparator, whichever pairs it asks for.
CompareGeometry ==
    /\ pc = "compare"
    /\ meta' = [i \in 1..Len(items) |-> [j \in 1..Len(items) |->
                    compareByGeometry(items[i], items[j])]]
    /\ pc' = "compared"
    /\ UNCHANGED <<str, num, form, selection, items, images, orderedImages, k,
                   pendingSync, syncCount, written, notifications>>

InitCompare ==
    /\ pc = "compare"
    /\ form = NoForm
    /\ selection \in SeqsUpTo(CompareItems, MaxLayoutItems)
    /\ images = Identity(Len(selection))
    /\ orderedImages = << >>
    /\ Fresh

SpecCompare ==
    InitCompare /\ [][CompareGeometry]_vars

(***************************************************************************)
(* alignImagesInGivenOrder run twice: the second run gets the images the   *)
(* first one has placed, in the same order and with the same config, whose *)
(* size mode is "none".                                                    *)
(***************************************************************************)
AlignUniformAgain ==
    /\ pc = "uniform"
    /\ items' = Stored(items, orderedImages,
            UniformGrid(ResizeImages(Records(items, orderedImages),
                                     config.sizeMode), config))
    /\ pc' = "uniformAgain"
    /\ Aligned

AlignPackedAgain ==
    /\ pc = "packed"
    /\ items' = Stored(items, orderedImages,
            PackedRows(ResizeImages(Records(items, orderedImages),
                                    config.sizeMode), config))
    /\ pc' = "packedAgain"
    /\ Aligned

InitTwice ==
    /\ pc = "layout"
    /\ form \in {f \in LayoutForms : f.sortingSizeMode = "none"}
    /\ selection \in SeqsUpTo(LayoutItems, MaxLayoutItems)
    /\ selection # << >>
    /\ images = Identity(Len(selection))
    /\ orderedImages = Identity(Len(selection))
    /\ Fresh

NextTwice ==
    \/ AlignUniform
    \/ AlignPacked
    \/ AlignUniformAgain
    \/ AlignPackedAgain

SpecTwice ==
    InitTwice /\ [][NextTwice]_vars

(***************************************************************************)
(* handleSortingSubmit with every external call resolving or rejecting:    *)
(* board.getSelection() and the notification calls too.  In this           *)
(* specification pc = "done" is the handler awaiting its last notification *)
(* call, whose notification is in `notifications` as long as the call has  *)
(* not rejected, and pc = "ended" is the handler having finished.  Every   *)
(* call settles in the end: the steps of the board are weakly fair.        *)
(***************************************************************************)
\* board.getSelection() rejected: the catch block shows the error.
SelectionRejected ==
    /\ pc = "getSelection"
    /\ notifications' = Notified("error", "wrong", 0)
    /\ pc' = "done"
    /\ UNCHANGED <<str, num, form, selection, items, images, orderedImages, k,
                   meta, pendingSync, syncCount, written>>

\* showInfo("Sorting by brightness...") rejected: nothing was shown, and the
\* catch block shows the error.
SortingInfoRejected ==
    /\ pc = "color"
    /\ k = 1
    /\ notifications' = Append(SubSeq(notifications, 1, Len(notifications) - 1),
                               [level |-> "error", message |-> "wrong", count |-> 0])
    /\ pc' = "done"
    /\ UNCHANGED <<str, num, form, selection, items, images, orderedImages, k,
                   meta, pendingSync, syncCount, written>>

\* The last notification call resolved: the handler returns.
NotificationResolved ==
    /\ pc = "done"
    /\ pc' = "ended"
    /\ UNCHANGED <<str, num, form, selection, items, images, orderedImages, k,
                   meta, pendingSync, syncCount, written, notifications>>

\* The last notification call rejected and nothing was shown.  When it was a
\* call of the try block the catch block shows the error; when it was the
\* showError of the catch block the rejection leaves the handler.
NotificationRejected ==
    /\ pc = "done"
    /\ LET shown == SubSeq(notifications, 1, Len(notifications) - 1)
       IN  IF notifications[Len(notifications)].message = "wrong"
           THEN /\ notifications' = shown
                /\ pc' = "ended"
           ELSE /\ notifications' = Append(shown,
                        [level |-> "error", message |-> "wrong", count |-> 0])
                /\ pc' = "done"
    /\ UNCHANGED <<str, num, form, selection, items, images, orderedImages, k,
                   meta, pendingSync, syncCount, written>>

\* A sync() the handler has issued resolves while the handler runs.
SyncResolveRunning ==
    /\ pc # "ended"
    /\ SyncResolve

\* The steps in which an external call settles or the handler goes on.
Settle ==
    \/ SelectionResolved
    \/ SelectionRejected
    \/ SortingInfoRejected
    \/ ColorFromMetadata
    \/ ColorNoUrl
    \/ ColorSampled
    \/ ColorSamplingFailed
    \/ Align
    \/ Place
    \/ SyncResolveRunning
    \/ SyncReject
    \/ NotificationResolved
    \/ NotificationRejected

NextTerminal ==
    \/ Submit
    \/ SelectionResolved
    \/ SelectionRejected
    \/ SortingInfoRejected
    \/ ColorFromMetadata
    \/ ColorNoUrl
    \/ ColorSampled
    \/ ColorSamplingFailed
    \/ Align
    \/ Place
    \/ SyncResolveRunning
    \/ SyncReject
    \/ NotificationResolved
    \/ NotificationRejected

SpecTerminal ==
    Init /\ [][NextTerminal]_vars /\ WF_vars(Settle)

(***************************************************************************)
(* Properties                                                              *)
(***************************************************************************)
SelectedImages ==
    ImagesOf(selection, Len(selection))

LastNotification ==
    notifications[Len(notifications)]

\* The value of a run of digits read in base 10.
RECURSIVE Base10(_)
Base10(digits) ==
    IF digits = << >> THEN 0
    ELSE (Head(digits) - 48) * (10 ^ (Len(digits) - 1)) + Base10(Tail(digits))

\* The value of the last maximal run of digits of s, NULL without a digit.
LastDigitRun(s) ==
    LET D == {j \in 1..Len(s) : IsDigit(s[j])}
    IN  IF D = {} THEN NULL
        ELSE LET last == Max(D)
                 first == Min({i \in 1..last : \A j \in i..last : j \in D})
             IN  Base10(SubSeq(s, first, last))

\* C1: with the number strategy in strict mode, when a selected image has no
\* number in its label, no title, size or position is written, no sync is
\* issued, and the operation ends with one error, the validation error.
C1_StrictNumberRejects ==
    ( /\ sortMode = "number"
      /\ form.strictNumberValidation
      /\ ~TooFewColumns
      /\ \E i \in Range(SelectedImages) :
            LastDigitRun(selection[i].title) = NULL )
    => /\ written = {}
       /\ syncCount = 0
       /\ items = selection
       /\ pc = "done" => /\ Len(notifications) = 1
                         /\ LastNotification.level = "error"

\* C2: the number ordering returns a permutation of its input; an image with
\* a number precedes every image without one; numbered images are in
\* ascending numeric value, equal numbers in the order of the lower-cased
\* titles; unnumbered images are in the order of the lower-cased titles;
\* images equal on all of these keep their input order.
C2_NumberOrdering ==
    pc = "sorted" =>
        /\ Len(orderedImages) = Len(images)
        /\ Range(orderedImages) = Range(images)
        /\ \A p, q \in 1..Len(orderedImages) :
            p < q =>
                LET a == items[orderedImages[p]].title
                    b == items[orderedImages[q]].title
                    na == LastDigitRun(a)
                    nb == LastDigitRun(b)
                IN  /\ na = NULL => nb = NULL
                    /\ (na # NULL /\ nb # NULL) => na <= nb
                    /\ na = nb => ~StrLess(ToLowerCase(b), ToLowerCase(a))
                    /\ (na = nb /\ ToLowerCase(a) = ToLowerCase(b))
                            => orderedImages[p] < orderedImages[q]

\* Titles b_2, a_1, c come out as a_1, b_2, c.
C2_Witness ==
    /\ pc = "sorted"
    /\ Len(items) = 3
    /\ items[1].title = <<98, 95, 50>>
    /\ items[2].title = <<97, 95, 49>>
    /\ items[3].title = <<99>>
    /\ orderedImages = <<2, 1, 3>>

\* C3: the number extracted from a label is the value of the last maximal
\* run of decimal digits anywhere in the label, read in base 10, and null
\* exactly when the label has no digit.
C3_LastRunAnywhere ==
    pc = "extracted" => num = LastDigitRun(str)

\* The corner of the bounding box b that startCorner names.
CornerOf(b, startCorner) ==
    <<IF EndsWithLeft(startCorner) THEN b.minLeft ELSE b.maxRight,
      IF StartsWithTop(startCorner) THEN b.minTop ELSE b.maxBottom>>

\* The images as they are just before the placement: resized, not yet moved.
BeforePlacement ==
    ResizeImages(Records(selection, orderedImages), config.sizeMode)

AfterLayout ==
    pc \in {"uniform", "packed"}

Left(img) ==
    img.x - img.width \div 2

Top(img) ==
    img.y - img.height \div 2

\* The interiors of the rectangles of a and b have a point in common.
Overlap(a, b) ==
    /\ Left(a) < Left(b) + b.width
    /\ Left(b) < Left(a) + a.width
    /\ Top(a) < Top(b) + b.height
    /\ Top(b) < Top(a) + a.height

\* C5: N unit squares laid out with C columns, zero gaps and anchor top-left:
\* the image at index i (from 0) has its top-left corner at
\* (minLeft + i mod C, minTop + floor(i / C)) and no two images overlap.
\* A unit is 2 half units.
C5_UnitGrid ==
    ( /\ AfterLayout
      /\ config.horizontalGap = 0
      /\ config.verticalGap = 0
      /\ config.startCorner = "top-left" )
    => LET old == Bounds(BeforePlacement)
           C == config.imagesPerRow
       IN  /\ \A i \in 1..Len(items) :
                /\ items[i].width = 2 /\ items[i].height = 2
                /\ Left(items[i]) = old.minLeft + 2 * ((i - 1) % C)
                /\ Top(items[i]) = old.minTop + 2 * ((i - 1) \div C)
           /\ \A i, j \in 1..Len(items) : i # j => ~Overlap(items[i], items[j])

\* 5 unit squares with 2 columns: rows of 2, 2 and 1.
C5_Witness ==
    /\ pc = "packed"
    /\ Len(items) = 5
    /\ config.imagesPerRow = 2
    /\ config.horizontalGap = 0
    /\ config.verticalGap = 0
    /\ config.startCorner = "top-left"
    /\ selection[1].x = 3
    /\ Left(items[4]) = Left(items[1]) + 2
    /\ Top(items[4]) = Top(items[1]) + 2
    /\ Left(items[5]) = Left(items[1])
    /\ Top(items[5]) = Top(items[1]) + 4

C7_NonEmptyLabelsKept ==
    \A i \in Range(SelectedImages) :
        selection[i].title # << >> => items[i].title = selection[i].title

\* C8: with the color strategy, when no image has a cached brightness and
\* the sampling fails for every image, the order returned is the geometry
\* order.  (A luminance of 0.5 in meta marks a failed sampling: no sampled
\* value of the model is 0.5; meta as long as images: no image was skipped.)
C8_AllFailGeometryOrder ==
    ( /\ pc = "align"
      /\ sortMode = "color"
      /\ \A i \in Range(images) : items[i].brightness = NULL
      /\ Len(meta) = Len(images)
      /\ \A m \in Range(meta) : m.y = NeutralLuminance )
    => orderedImages = sortByGeometry(items, images)

\* C9: with the color strategy every image gets a luminance, the cached
\* brightness when there is one and else the sampled value or 0.5, the
\* images are returned in non-increasing luminance, and no error is shown.
C9_EveryImageByLuminance ==
    ( /\ pc = "align"
      /\ sortMode = "color"
      /\ meta # << >> )
    => /\ \A i \in Range(images) :
            \E m \in Range(meta) :
                /\ m.img = i
                /\ m.y = IF items[i].brightness # NULL THEN items[i].brightness
                         ELSE m.y
                /\ m.y \in SampledLuminances \cup {NeutralLuminance, items[i].brightness}
       /\ Len(orderedImages) = Len(images)
       /\ Range(orderedImages) = Range(images)
       /\ \A p, q \in 1..Len(orderedImages) :
            p < q => \A a, b \in Range(meta) :
                (a.img = orderedImages[p] /\ b.img = orderedImages[q]) => a.y >= b.y
       /\ \A n \in Range(notifications) : n.level # "error"

\* C10: in the geometry ordering two images whose centres differ vertically
\* by at most half the smaller of their heights are in one row and come in
\* the order of their horizontal positions; otherwise the higher one comes
\* first.  Stated for a selection of two images.
C10_ToleranceRow ==
    (pc = "sorted" /\ Len(orderedImages) = 2)
    => LET a == items[orderedImages[1]]
           b == items[orderedImages[2]]
       IN  IF 2 * Abs(a.y - b.y) <= Min({a.height, b.height})
           THEN a.x <= b.x
           ELSE a.y < b.y

\* C11: the alphabetical ordering returns a permutation of the images in
\* ascending order of the lower-cased titles, compared as strings (digits
\* are characters: "a10" precedes "a9"), equal lower-cased titles in input
\* order.
C11_AlphabeticalOrdering ==
    pc = "sorted" =>
        /\ Len(orderedImages) = Len(images)
        /\ Range(orderedImages) = Range(images)
        /\ \A p, q \in 1..Len(orderedImages) :
            p < q =>
                LET a == ToLowerCase(items[orderedImages[p]].title)
                    b == ToLowerCase(items[orderedImages[q]].title)
                IN  /\ ~StrLess(b, a)
                    /\ a = b => orderedImages[p] < orderedImages[q]

\* Titles a9, B_2, a10 come out as a10, a9, B_2.
C11_Witness ==
    /\ pc = "sorted"
    /\ Len(items) = 3
    /\ items[1].title = <<97, 57>>
    /\ items[2].title = <<66, 95, 50>>
    /\ items[3].title = <<97, 49, 48>>
    /\ orderedImages = <<3, 1, 2>>

\* The images before the placement all have one width and one height.
SameSizes ==
    \A i, j \in 1..Len(BeforePlacement) :
        /\ BeforePlacement[i].width = BeforePlacement[j].width
        /\ BeforePlacement[i].height = BeforePlacement[j].height

\* The centres (x, y) of the images of a layout, in order.
Centres(imgs) ==
    [i \in 1..Len(imgs) |-> <<imgs[i].x, imgs[i].y>>]

\* C12: when all images have the same width and the same height, the
\* uniform grid and the packed rows give every image the same x and y for
\* the same order, columns, gaps and corner: what one layout has written is
\* what the other computes from the same images.
C12_UniformIsPacked ==
    (AfterLayout /\ SameSizes) =>
        /\ pc = "uniform" =>
            Centres(Records(items, orderedImages))
                = Centres(PackedRows(BeforePlacement, config))
        /\ pc = "packed" =>
            Centres(Records(items, orderedImages))
                = Centres(UniformGrid(BeforePlacement, config))

\* Three images 2 x 1 in two columns with gaps, from the bottom-right: the
\* last row is partially filled.
C12_Witness ==
    /\ pc = "uniform"
    /\ Len(items) = 3
    /\ \A i \in 1..3 : selection[i].width = 4 /\ selection[i].height = 2
    /\ config.imagesPerRow = 2
    /\ config.horizontalGap = 1
    /\ config.verticalGap = 1
    /\ config.startCorner = "bottom-right"
    /\ items[3].x = items[1].x
    /\ items[3].y < items[1].y
    /\ items[2].x < items[1].x

\* The layout that wrote the current state, run on the same images with the
\* anchor top-left.
FromTopLeft ==
    LET c == [config EXCEPT !.startCorner = "top-left"]
    IN  IF pc = "uniform" THEN UniformGrid(BeforePlacement, c)
        ELSE PackedRows(BeforePlacement, c)

\* Image i is as far left of maxRight under bottom-right as it is right of
\* minLeft under top-left.
MirroredX(i) ==
    LET old == Bounds(BeforePlacement)
        br == Records(items, orderedImages)[i]
    IN  old.maxRight - (Left(br) + br.width) = Left(FromTopLeft[i]) - old.minLeft

\* Image i is as far above maxBottom under bottom-right as it is below
\* minTop under top-left.
MirroredY(i) ==
    LET old == Bounds(BeforePlacement)
        br == Records(items, orderedImages)[i]
    IN  old.maxBottom - (Top(br) + br.height) = Top(FromTopLeft[i]) - old.minTop

PositionWritten ==
    "x" \in written \/ "y" \in written

\* C14: when the size mode asks for a resize, the step that computes the
\* bounding box and writes the first position is taken after the resize was
\* written and every resize sync has completed; a step that ends the
\* operation from the resize syncs (a sync was rejected) writes no position,
\* and nothing is written once the operation has ended.
C14_ResizeBeforePosition ==
    [][ /\ ( /\ config.sizeMode \in {"width", "height"}
             /\ ~PositionWritten
             /\ PositionWritten' )
           => /\ pc = "place"
              /\ pendingSync = {}
              /\ config.sizeMode \in written
        /\ pc = "resizeSync" => ~PositionWritten'
        /\ pc = "done" => /\ written' = written
                          /\ items' = items
                          /\ syncCount' = syncCount ]_vars

\* An operation with size mode width on two images has ended well after four
\* syncs: two of the width, then two of the position.
C14_Witness ==
    /\ pc = "done"
    /\ config.sizeMode = "width"
    /\ Len(orderedImages) = 2
    /\ written = {"width", "x", "y"}
    /\ syncCount = 4
    /\ pendingSync = {}
    /\ LastNotification.level = "info"

\* The widths, heights and centres of the widgets.
Geometry(objs) ==
    [i \in 1..Len(objs) |-> <<objs[i].x, objs[i].y, objs[i].width, objs[i].height>>]

\* C15: in an operation whose pre-pass wrote labels, while the label syncs
\* are awaited nothing else is written or synced, and every later write (a
\* resize, a position) is made by a step taken when no sync is pending: all
\* label syncs have completed before the layout starts.
C15_LabelsBeforeLayout ==
    [][ /\ pc = "titleSync" => /\ written' = written
                               /\ Geometry(items') = Geometry(items)
                               /\ syncCount' = syncCount
        /\ ("title" \in written /\ written' # written)
            => /\ pendingSync = {}
               /\ pc \in {"align", "place"} ]_vars

\* Two images, one of them without title, were labelled "1" and "2", synced,
\* and then laid out and synced again.
C15_Witness ==
    /\ pc = "done"
    /\ Len(selection) = 2
    /\ selection[1].title = << >>
    /\ selection[2].title = <<98, 95, 55>>
    /\ selection[1].y < selection[2].y
    /\ items[1].title = <<49>>
    /\ items[2].title = <<50>>
    /\ written = {"title", "x", "y"}
    /\ syncCount = 4
    /\ pendingSync = {}
    /\ LastNotification.level = "info"

\* The number of error notifications shown so far.
Errors(shown) ==
    Cardinality({i \in 1..Len(shown) : shown[i].level = "error"})

\* C16: the step in which a title, resize or position sync is rejected ends
\* the operation with one error notification, the only one, and changes no
\* widget and issues no sync; once the operation has ended no widget is
\* written, no sync is issued and nothing more is shown: what was written
\* before the rejection stays.
C16_NoRollback ==
    [][ /\ ( /\ pc \in {"titleSync", "resizeSync", "positionSync"}
             /\ pc' = "done"
             /\ LastNotification'.level = "error" )
           => /\ items' = items
              /\ written' = written
              /\ syncCount' = syncCount
              /\ notifications' = Append(notifications, LastNotification')
              /\ Errors(notifications') = 1
        /\ pc = "done" => /\ items' = items
                          /\ written' = written
                          /\ syncCount' = syncCount
                          /\ notifications' = notifications ]_vars

\* The titles "1" and "2" were written and synced, the widths were written
\* and a width sync was rejected: the operation has ended with the error
\* and the new titles are still there.
C16_Witness ==
    /\ pc = "done"
    /\ LastNotification.level = "error"
    /\ LastNotification.message = "wrong"
    /\ written = {"title", "width"}
    /\ Len(selection) = 2
    /\ selection[1].title = << >>
    /\ items[1].title # << >>
    /\ syncCount = 4

\* Images a and b are equal on the keys of the strategy that ran.
KeysEqual(a, b) ==
    IF sortMode = "number"
    THEN /\ LastDigitRun(a.title) = LastDigitRun(b.title)
         /\ ToLowerCase(a.title) = ToLowerCase(b.title)
    ELSE IF sortMode = "alphabetical"
    THEN ToLowerCase(a.title) = ToLowerCase(b.title)
    ELSE IF sortMode = "geometry"
    THEN a.x = b.x /\ a.y = b.y
    ELSE a.brightness = b.brightness

\* C17: for every strategy, whether or not the sort is stable, two images
\* that are equal on the strategy's keys come out in their input order.
C17_TiesInInputOrder ==
    pc = "sorted" =>
        \A p, q \in 1..Len(orderedImages) :
            (p < q /\ KeysEqual(items[orderedImages[p]], items[orderedImages[q]]))
                => orderedImages[p] < orderedImages[q]

C19_ResizeToMinimum ==
    AfterLayout =>
        LET N == 1..Len(orderedImages)
            before(i) == selection[orderedImages[i]]
            after(i) == items[orderedImages[i]]
        IN  /\ config.sizeMode = "width" =>
                /\ "width" \in written
                /\ \A i \in N : after(i).width = Min({before(j).width : j \in N})
            /\ config.sizeMode = "height" =>
                /\ "height" \in written
                /\ \A i \in N : after(i).height = Min({before(j).height : j \in N})
            /\ config.sizeMode = "none" =>
                /\ written \cap {"width", "height"} = {}
                /\ \A i \in N : /\ after(i).width = before(i).width
                                 /\ after(i).height = before(i).height

\* Images 2 x 1 and 1 x 2 with size mode width: both are 1 wide afterwards.
C19_Witness ==
    /\ pc = "uniform"
    /\ config.sizeMode = "width"
    /\ Len(items) = 2
    /\ selection[1].width = 4 /\ selection[2].width = 2
    /\ selection[2].height = 4
    /\ items[1].width = 2 /\ items[2].width = 2
    /\ "width" \in written

\* The cells (row, column), counted from the anchor corner, of a grid of
\* rows x cols cells of the largest width and height at the gaps' distance,
\* anchored at the corner of the bounding box, at whose top-left image i is:
\* one cell when the image's distances from the anchor are whole numbers of
\* cell steps inside the grid, none otherwise.
CellsOf(i) ==
    LET N == 1..Len(orderedImages)
        old == Bounds(BeforePlacement)
        cols == Max({1, config.imagesPerRow})
        rows == (Len(orderedImages) + cols - 1) \div cols
        maxWidth == Max({BeforePlacement[j].width : j \in N})
        maxHeight == Max({BeforePlacement[j].height : j \in N})
        stepX == maxWidth + config.horizontalGap
        stepY == maxHeight + config.verticalGap
        img == Records(items, orderedImages)[i]
        dx == IF EndsWithLeft(config.startCorner)
              THEN Left(img) - old.minLeft
              ELSE old.maxRight - maxWidth - Left(img)
        dy == IF StartsWithTop(config.startCorner)
              THEN Top(img) - old.minTop
              ELSE old.maxBottom - maxHeight - Top(img)
    IN  IF /\ dx % stepX = 0
           /\ dy % stepY = 0
           /\ dx \div stepX \in 0..(cols - 1)
           /\ dy \div stepY \in 0..(rows - 1)
        THEN {<<dy \div stepY, dx \div stepX>>}
        ELSE {}

\* C20: in the uniform grid with cols = max(1, columns) and rows =
\* ceil(N / cols) the image at index i (from 0) is in the cell of row
\* floor(i / cols) and column i mod cols counted from the anchor corner,
\* which is the cell computeGridPosition gives counted from the top-left;
\* two images are in different cells (no two have the same top-left), and
\* every row but the last holds cols images (the images of a row are those
\* with its top).
C20_UniformCells ==
    pc = "uniform" =>
        LET N == 1..Len(orderedImages)
            cols == Max({1, config.imagesPerRow})
            rows == (Len(orderedImages) + cols - 1) \div cols
            img(i) == items[orderedImages[i]]
            InRowOf(i) == {j \in N : Top(img(j)) = Top(img(i))}
        IN  /\ \A i \in N :
                /\ CellsOf(i) = {<<(i - 1) \div cols, (i - 1) % cols>>}
                /\ LET p == computeGridPosition(i - 1, cols, rows, config.startCorner)
                   IN  /\ p.rowFromTop = IF StartsWithTop(config.startCorner)
                                         THEN (i - 1) \div cols
                                         ELSE rows - 1 - ((i - 1) \div cols)
                       /\ p.colFromLeft = IF EndsWithLeft(config.startCorner)
                                          THEN (i - 1) % cols
                                          ELSE cols - 1 - ((i - 1) % cols)
                /\ Cardinality(InRowOf(i)) =
                      IF (i - 1) \div cols < rows - 1 THEN cols
                      ELSE Len(orderedImages) - cols * (rows - 1)
                /\ Cardinality(InRowOf(i)) \in 1..cols
            /\ \A i, j \in N :
                i # j => \/ Left(img(i)) # Left(img(j))
                         \/ Top(img(i)) # Top(img(j))

\* Three images of different sizes in two columns from the bottom-right:
\* the third is alone in the upper row, in the right column.
C20_Witness ==
    /\ pc = "uniform"
    /\ config.startCorner = "bottom-right"
    /\ config.imagesPerRow = 2
    /\ config.sizeMode = "none"
    /\ config.horizontalGap = 1
    /\ Len(items) = 3
    /\ selection[1].width = 4 /\ selection[2].height = 4
    /\ CellsOf(3) = {<<1, 0>>}
    /\ Left(items[3]) = Left(items[1])
    /\ Top(items[3]) < Top(items[2])
    /\ Left(items[2]) = Left(items[1]) - 5

\* The images of row r (from 0) of a layout in rows of cols images.
RowOf(r, cols) ==
    {j \in 1..Len(orderedImages) : (j - 1) \div cols = r}

\* The sum of the widths of the images of imgs with an index in S.
RECURSIVE SumWidths(_, _)
SumWidths(imgs, S) ==
    IF S = {} THEN 0
    ELSE LET j == CHOOSE j \in S : TRUE
         IN  imgs[j].width + SumWidths(imgs, S \ {j})

\* The sum of the largest heights of the rows 0 .. rows - 1.
RECURSIVE SumTallest(_, _, _)
SumTallest(imgs, cols, rows) ==
    IF rows = 0 THEN 0
    ELSE SumTallest(imgs, cols, rows - 1)
         + Max({imgs[j].height : j \in RowOf(rows - 1, cols)})

\* C21: in the packed rows, for images of any width and height of at least
\* 0, the width computed for a row of k images is the sum of their widths
\* plus (k - 1) horizontal gaps, the grid width is the largest row width, and
\* the grid height is the sum of the rows' largest heights plus (rows - 1)
\* vertical gaps.
C21_PackedGridSizes ==
    pc = "packed" =>
        LET imgs == BeforePlacement
            total == Len(imgs)
            cols == Max({1, config.imagesPerRow})
            rows == (total + cols - 1) \div cols
            sum(r) == SumWidths(imgs, RowOf(r, cols))
                      + (Cardinality(RowOf(r, cols)) - 1) * config.horizontalGap
            g == PackedGrid(imgs, config)
        IN  /\ \A r \in 0..(rows - 1) :
                RowWidthAfter(imgs, cols, config.horizontalGap, r, total) = sum(r)
            /\ g.gridWidth = Max({sum(r) : r \in 0..(rows - 1)})
            /\ g.gridHeight = SumTallest(imgs, cols, rows)
                                + (rows - 1) * config.verticalGap

\* The height of the band of row r: that of the tallest image of the row.
BandHeight(r) ==
    Max({BeforePlacement[j].height : j \in RowOf(r, Max({1, config.imagesPerRow}))})

\* The distance from the anchor edge of the bounding box to the near edge of
\* the band of row r: the bands before it, each followed by a vertical gap.
RECURSIVE BandOffset(_)
BandOffset(r) ==
    IF r = 0 THEN 0
    ELSE BandOffset(r - 1) + BandHeight(r - 1) + config.verticalGap

\* The top of the band of row r, rows counted from the anchor.
BandTop(r) ==
    IF StartsWithTop(config.startCorner)
    THEN Bounds(BeforePlacement).minTop + BandOffset(r)
    ELSE Bounds(BeforePlacement).maxBottom - BandOffset(r) - BandHeight(r)

\* C22: in the packed rows, with any anchor, two consecutive images of a row
\* are the horizontal gap apart (the later one on the side away from the
\* anchor), every image's vertical centre is the middle of its row's band,
\* whose height is that of the row's tallest image, and the bands of
\* consecutive rows are the vertical gap apart, starting at the anchor edge.
C22_PackedSpacing ==
    pc = "packed" =>
        LET imgs == Records(items, orderedImages)
            N == 1..Len(imgs)
            cols == Max({1, config.imagesPerRow})
            rows == (Len(imgs) + cols - 1) \div cols
        IN  /\ \A i \in N :
                (i + 1 \in N /\ i % cols # 0) =>
                    IF EndsWithLeft(config.startCorner)
                    THEN Left(imgs[i + 1])
                            = Left(imgs[i]) + imgs[i].width + config.horizontalGap
                    ELSE Left(imgs[i + 1]) + imgs[i + 1].width + config.horizontalGap
                            = Left(imgs[i])
            /\ \A i \in N :
                LET r == (i - 1) \div cols
                IN  2 * imgs[i].y = 2 * BandTop(r) + BandHeight(r)
            /\ \A r \in 0..(rows - 2) :
                IF StartsWithTop(config.startCorner)
                THEN BandTop(r + 1) = BandTop(r) + BandHeight(r) + config.verticalGap
                ELSE BandTop(r + 1) + BandHeight(r + 1) + config.verticalGap
                        = BandTop(r)

\* Packed rows of a 1 x 2, a 2 x 1 and a 1 x 1 image in two columns with
\* gaps, from the bottom-right: the second image is left of the first and
\* centred on the first one's height, the third is above the first row.
C22_Witness ==
    /\ pc = "packed"
    /\ config.startCorner = "bottom-right"
    /\ config.sizeMode = "none"
    /\ config.imagesPerRow = 2
    /\ config.horizontalGap = 1
    /\ config.verticalGap = 1
    /\ Len(items) = 3
    /\ items[1].height = 4 /\ items[2].width = 4 /\ items[2].height = 2
    /\ items[3].width = 2 /\ items[3].height = 2
    /\ Left(items[2]) + 4 + 1 = Left(items[1])
    /\ items[2].y = items[1].y
    /\ Top(items[3]) + 2 + 1 = Top(items[1])

\* Run o is suspended at an external call.
Suspended(o) ==
    pc[o] \in {"getSelection", "positionSync"}

\* The centre of a widget.
Centre(item) ==
    <<item.x, item.y>>

\* C23: the sorting operation has no in-flight guard: while a run of the
\* handler is suspended at an external call, a submit starts another run;
\* the sync() calls of the two runs are in flight together, and when both
\* runs have ended without an error every image of the board is where one
\* of the runs that placed it has put it, not necessarily the same run for
\* every image.
C23_NoInFlightGuard ==
    /\ \A o, p \in Ops :
            (o # p /\ Suspended(o) /\ pc[p] = "idle") => ENABLED ConcurrentSubmit(p)
    /\ ( /\ pendingSync = {}
          /\ \A o \in Ops : pc[o] = "done"
          /\ \A n \in 1..Len(notifications) : notifications[n].level # "error" ) =>
            \A id \in 1..Len(selection) :
                \/ \E o \in Ops : /\ id \in Range(orderedImages[o])
                                  /\ selection[id] = items[o][id]
                \/ \A o \in Ops : id \notin Range(orderedImages[o])

\* Both runs have ended with "Done", and the board holds the first image
\* where run 1 has put it and the second where run 2 has put it, each at a
\* place the other run has not given it: a mix of the two layouts.
C23_Witness ==
    /\ \A o \in Ops : pc[o] = "done"
    /\ pendingSync = {}
    /\ Len(selection) = 2
    /\ Len(notifications) = 2
    /\ \A n \in 1..2 : notifications[n].message = "done"
    /\ Centre(selection[1]) = Centre(items[1][1])
    /\ Centre(selection[1]) # Centre(items[2][1])
    /\ Centre(selection[2]) = Centre(items[2][2])
    /\ Centre(selection[2]) # Centre(items[1][2])

\* C24: the import creates one board image per chosen file, one after
\* another, in the number-aware order of the file names (numbered names
\* first, by number, then by lower-cased name, then by position), each
\* titled with its file's name and of its picture's size; the layout runs
\* once, when every image has been created, over the created images in
\* that order, without resize and with zero gaps: the images of a row touch
\* and so do the rows.
C24_StitchImport ==
    LET files == selection
        cols == Max({1, StitchConfig.imagesPerRow})
        N == 1..Len(items)
        tallest(r) == Max({items[j].height : j \in {n \in N : (n - 1) \div cols = r}})
    IN  /\ images # << >> =>
            /\ Len(images) = Len(files)
            /\ Range(images) = 1..Len(files)
            /\ \A p, q \in 1..Len(images) :
                p < q =>
                    LET a == files[images[p]].name
                        b == files[images[q]].name
                        na == LastDigitRun(a)
                        nb == LastDigitRun(b)
                    IN  /\ na = NULL => nb = NULL
                        /\ (na # NULL /\ nb # NULL) => na <= nb
                        /\ na = nb => ~StrLess(ToLowerCase(b), ToLowerCase(a))
                        /\ (na = nb /\ ToLowerCase(a) = ToLowerCase(b))
                                => images[p] < images[q]
        /\ Len(items) <= Len(files)
        /\ orderedImages = Identity(Len(items))
        /\ \A j \in N :
            /\ items[j].title = files[images[j]].name
            /\ items[j].width = files[images[j]].width
            /\ items[j].height = files[images[j]].height
        /\ pc \in {"read", "load", "create"} =>
            /\ Len(items) = k - 1
            /\ written = {}
            /\ syncCount = 0
        /\ written \subseteq {"x", "y"}
        /\ PositionWritten =>
            /\ Len(items) = Len(files)
            /\ syncCount = Len(files)
            /\ \A i \in N :
                (i + 1 \in N /\ i % cols # 0) =>
                    IF EndsWithLeft(StitchConfig.startCorner)
                    THEN Left(items[i + 1]) = Left(items[i]) + items[i].width
                    ELSE Left(items[i + 1]) + items[i + 1].width = Left(items[i])
            /\ \A i, j \in N :
                LET r == (i - 1) \div cols
                IN  /\ (j - 1) \div cols = r => items[j].y = items[i].y
                    /\ (j - 1) \div cols = r + 1 =>
                        2 * Abs(items[j].y - items[i].y) = tallest(r) + tallest(r + 1)
        /\ (pc = "done" /\ LastNotification.level = "info") =>
            /\ Len(items) = Len(files)
            /\ PositionWritten
            /\ LastNotification.count = Len(files)

\* The files "b_2" (2 x 1) and "a_1" were imported with two images per row
\* from the top-left: "a_1" was created first and "b_2" touches it on the
\* right.
C24_Witness ==
    /\ pc = "done"
    /\ LastNotification.level = "info"
    /\ form.stitchImagesPerRow = 2
    /\ form.stitchStartCorner = "top-left"
    /\ Len(selection) = 2
    /\ selection[1].name = <<98, 95, 50>> /\ selection[1].width = 4
    /\ selection[2].name = <<97, 95, 49>> /\ selection[2].width = 2
    /\ items[1].title = <<97, 95, 49>>
    /\ items[2].title = <<98, 95, 50>>
    /\ Left(items[2]) = Left(items[1]) + 2
    /\ items[2].y = items[1].y
    /\ syncCount = 2

\* The import is running: the handler is past its validations and has not
\* gone through its finally block.
ImportRunning ==
    pc \in {"read", "load", "create", "positionSync", "zoom", "showInfo", "catch"}

\* C29: the stitch button is disabled only while an import is running, and
\* whenever handleStitchSubmit has finished, after a success, a validation
\* error or a failed external call, the button is enabled.
C29_ButtonEnabledAgain ==
    /\ meta.disabled => ImportRunning
    /\ pc = "done" => ~meta.disabled
    /\ (ImportRunning /\ pc # "catch") => meta.disabled

\* An import of two files has ended with the error of the catch block after
\* the first image was created, and the button is enabled.
C29_Witness ==
    /\ pc = "done"
    /\ Len(selection) = 2
    /\ Len(items) = 1
    /\ LastNotification.level = "error"
    /\ LastNotification.message = "wrong"
    /\ meta.progress = "Error"
    /\ ~meta.disabled

\* C25: the order a strategy returns is a permutation of the selected
\* images, with the color strategy too: every selected image is laid out
\* and the count shown at the end is the number of selected images.
C25_OrderIsPermutation ==
    /\ pc \in {"align", "resizeSync", "place", "positionSync"} =>
        /\ Len(orderedImages) = Len(SelectedImages)
        /\ Range(orderedImages) = Range(SelectedImages)
    /\ (pc = "done" /\ LastNotification.message = "done") =>
        /\ Range(orderedImages) = Range(SelectedImages)
        /\ LastNotification.count = Len(SelectedImages)

\* C26: compareByGeometry is a consistent ordering of any images: when it
\* puts a before b it puts b after a, and when it puts a before b and b
\* before c it puts a before c.
C26_ConsistentOrdering ==
    pc = "compared" =>
        LET N == 1..Len(items)
        IN  /\ \A a, b \in N : meta[a][b] < 0 <=> meta[b][a] > 0
            /\ \A a, b, c \in N :
                (meta[a][b] < 0 /\ meta[b][c] < 0) => meta[a][c] < 0

\* C27: a layout of exactly one image leaves its x and y as they were, for
\* every column count, gaps, size mode and corner, in the uniform grid and
\* in the packed rows.
C27_SingleImageStays ==
    (AfterLayout /\ Len(orderedImages) = 1) =>
        /\ items[orderedImages[1]].x = selection[orderedImages[1]].x
        /\ items[orderedImages[1]].y = selection[orderedImages[1]].y

\* One image 2 x 1 at (1.5, 2.5) went through the uniform grid with three
\* columns, gaps, size mode width and the corner bottom-right.
C27_Witness ==
    /\ pc = "uniform"
    /\ Len(selection) = 1
    /\ selection[1].x = 3 /\ selection[1].y = 5 /\ selection[1].width = 4
    /\ config.imagesPerRow = 3
    /\ config.horizontalGap = 1
    /\ config.verticalGap = 1
    /\ config.sizeMode = "width"
    /\ config.startCorner = "bottom-right"
    /\ "x" \in written
    /\ syncCount = 2
    /\ items[1].x = 3 /\ items[1].y = 5

\* The step is a second run of the layout on the output of the first.
SecondRun ==
    /\ pc \in {"uniform", "packed"}
    /\ pc' \in {"uniformAgain", "packedAgain"}

\* The step leaves the x (the y) of every image as it was.
SameX ==
    \A i \in 1..Len(items) : items'[i].x = items[i].x

SameY ==
    \A i \in 1..Len(items) : items'[i].y = items[i].y

\* C28: a second run of the layout on its own output, with the same order,
\* columns, gaps and corner and size mode none, leaves the x and y of every
\* image unchanged, for images of any sizes, in the uniform grid and in the
\* packed rows.
C28_Idempotent ==
    [][SecondRun => (SameX /\ SameY)]_vars

\* How far the code is idempotent: the second run changes nothing in the
\* packed rows; in the uniform grid it leaves every x unchanged exactly when
\* the corner is a left one or an image of the anchor column has the largest
\* width, and every y exactly when the corner is a top one or an image of
\* the anchor row has the largest height.
SecondRunKeeps ==
    [][SecondRun =>
        LET N == 1..Len(orderedImages)
            cols == Max({1, config.imagesPerRow})
            sized(i) == items[orderedImages[i]]
            widest == Max({sized(i).width : i \in N})
            tallest == Max({sized(i).height : i \in N})
        IN  /\ pc = "packed" => (SameX /\ SameY)
            /\ pc = "uniform" =>
                /\ SameX = \/ EndsWithLeft(config.startCorner)
                           \/ \E i \in N : (i - 1) % cols = 0 /\ sized(i).width = widest
                /\ SameY = \/ StartsWithTop(config.startCorner)
                           \/ \E i \in N : (i - 1) \div cols = 0
                                              /\ sized(i).height = tallest
    ]_vars

\* The packed rows were run twice on a 1 x 2, a 2 x 1 and a 1 x 1 image in
\* two columns with gaps from the bottom-right, the images having been
\* moved by the first run.
SecondRunOfPackedRows ==
    /\ pc = "packedAgain"
    /\ config.startCorner = "bottom-right"
    /\ config.imagesPerRow = 2
    /\ config.horizontalGap = 1
    /\ config.verticalGap = 1
    /\ Len(items) = 3
    /\ items[1].height = 4 /\ items[2].width = 4 /\ items[3].width = 2
    /\ items[3].height = 2
    /\ syncCount = 6
    /\ Centres(items) # Centres(selection)
    /\ Centres(items) = Centres(PackedRows(selection, config))

\* The notifications that end an operation: the two validation messages,
\* "Done: aligned N" and the error of the catch block.
TerminalShown ==
    {i \in 1..Len(notifications) :
        notifications[i].message \in {"select", "imagesPerRow", "done", "wrong"}}

\* How far the handler is from its end: the stage it is in, the turns of the
\* color loop still to take, and the sync() calls not settled yet.
Rank ==
    LET stage ==
            CASE pc = "idle" -> 9
              [] pc = "getSelection" -> 8
              [] pc \in {"color", "titleSync"} -> 7
              [] pc = "align" -> 6
              [] pc = "resizeSync" -> 5
              [] pc = "place" -> 4
              [] pc = "positionSync" -> 3
              [] pc = "done" ->
                    IF notifications[Len(notifications)].message = "wrong"
                    THEN 1 ELSE 2
              [] OTHER -> 0
        turns == IF pc = "color" THEN Len(images) - k + 1 ELSE 0
    IN  100 * stage + 10 * turns + Cardinality(pendingSync)

\* The handler has a step to take whenever the call it awaits settles.
CanStep ==
    CASE pc = "color" -> k <= Len(images)
      [] pc \in {"titleSync", "resizeSync", "positionSync"} -> pendingSync # {}
      [] OTHER -> TRUE

\* C30: when every external call resolves or rejects in the end, every
\* sorting operation ends (each of its steps brings it nearer its end, and
\* it has a step to take as long as it has not ended), and it has then
\* shown exactly one terminal notification: "Done: aligned N", after the
\* positions were written and every position sync has resolved, or a
\* validation or error message.
C30_OneTerminalNotification ==
    [][ /\ Rank' < Rank
        /\ pc' # "ended" => CanStep'
        /\ pc' = "ended" =>
            /\ Cardinality(TerminalShown') = 1
            /\ \A i \in TerminalShown' :
                notifications'[i].message = "done" =>
                    /\ pendingSync' = {}
                    /\ PositionWritten' ]_vars

====
